---- MODULE Spec2Model ----
(***************************************************************************)
(* A model of the ffh-backend admin console: the page components' state,   *)
(* their async handlers split at every await, and the hosted database the  *)
(* handlers talk to.  Each page has its own specification (SpecHome, ...): *)
(* a page's actions leave the other pages' variables alone.                *)
(*                                                                         *)
(* A request to the hosted platform takes two steps: the platform executes *)
(* it (Server...), and later the awaiting handler resumes with the reply   *)
(* (...Response).  Replies of different requests may arrive in any order.  *)
(***************************************************************************)
EXTENDS Integers, Sequences, FiniteSets, TLC

VARIABLES
  \* ---- GamesHome page (src/src/pages/GamesHome.tsx) ----
  feature,        \* useState<FeatureState>: [enabled, showTab, title]
  loading,        \* useState(true)
  saving,         \* useState(false)
  saveTokenRef,   \* useRef(0).current
  toastOpen,      \* useState(false)
  toastMsg,       \* useState(""): [text, arg]
  appFeatures,    \* table app_features, the rows with key = FEATURE_KEY
  saves,          \* save() calls: token -> [pc, next, prev, res, outcome]
  loads,          \* load() calls: 0 (mount) or the token of the save that reloads
  \* ---- GamesEvents page (src/src/pages/GamesEvents.tsx) ----
  evRows,         \* useState<GamesEventRow[]>([])
  evLoading,      \* useState(true)
  evSaving,       \* useState(false)
  evToastOpen,    \* useState(false)
  evToastMsg,     \* useState("")
  evFormName,     \* form.name
  evDeleteTarget, \* useState<GamesEventRow | null>(null): a set of at most one row
  evDeleteOpen,   \* useState(false)
  gamesEvents,    \* table games_events
  gamesEventsIds, \* how many ids the table has handed out (an id is never reused)
  evLoad,         \* the load() started by the mount effect or the reload button
  evCall,         \* the handler in flight (createEvent, setActive, deleteEvent)
  \* ---- time entry (GamesResults.tsx, part_005) ----
  timeStr,        \* row.timeStr / timeInput: the text typed into the time field
  time_ms,        \* what each parser returned for it
  \* ---- GamesRuns page (src/src/pages/GamesRuns.tsx) ----
  runsPage,       \* the useState fields: loading, savingGlobal, activeEvent, ...
  rnLoadAll,      \* loadAll() in flight
  rnDisc,         \* its loadDisciplines()
  rnRunLoads,     \* loadRuns() calls in flight
  rnCreate,       \* createRun() in flight
  gamesDisciplines, \* table games_disciplines
  gamesRuns,      \* table games_runs
  gamesRunsIds,   \* how many ids games_runs has handed out
  \* ---- a failed write on a Games page ----
  wrSite,         \* the page and its handler
  wrMsg,          \* error.message
  wrToast,        \* the toast the page shows for it (none yet: {})
  \* ---- router and auth context (App.tsx, AuthProvider.tsx) ----
  authLoading,    \* AuthProvider: useState(true)
  authSession,    \* AuthProvider: useState<Session | null>(null)
  supabaseSession, \* the session the auth client holds
  getSession,     \* the getSession() call of the effect
  authAlive,      \* let alive = true
  requested,      \* the URL the user asked for last
  location,       \* the router's location
  screen,         \* the component on the screen
  \* ---- list pages with live refresh (NewsList.tsx, FoodList.tsx) ----
  lsTable,        \* const TABLE
  lsRows,         \* the rows of the table (ids)
  lsMounted,      \* the page is mounted
  lsInst,         \* which mount of the page this is
  lsPage,         \* loading, items, err
  lsLoads,        \* the selects of load() under way
  lsChannel,      \* the realtime channel of the page: none, joining, joined
  lsNotes,        \* change notifications on their way, each for a subscription
  lsSeen,          \* what notifications have done since the page was mounted
  \* ---- create forms (NewsCreate.tsx, FoodCreate.tsx, part_008) ----
  fmKind,         \* which form is on the screen
  fmFields,       \* the useState values of the inputs
  fmBusy,         \* busy
  fmErr,          \* err (null: <<>>)
  fmSave,         \* the save() call: presses so far, its position, its insert
  fmRows,         \* the rows of the table the form inserts into
  fmPath,          \* the location: the form, or the list after history.replace
  \* ---- Countdown page (part_009) ----
  cdPage,         \* loading, busy, err, rowId, startIso
  cdLoad,         \* the select of load()
  cdSave,         \* the update or insert of save()
  eventStart,     \* the rows of event_start
  eventStartIds,   \* ids handed out so far
  \* the run rows being edited (GamesRuns.tsx)
  storedRuns, runs, vmRuns, reLoads, reSave, reToast,
  \* two sessions on the Events page
  ssEvents, ssPage, ssCall,
  \* the results of the selected run (GamesResults.tsx)
  rsComponent, scoringMode, runResults, runResultsIds, resultsByTeam, vmRows,
  rsLoading, globalSaving, rsToast, rsLoad, rsRowCall, rsAllCall, rsCalls,
  \* ---- the Runs page with split errors (FoodCreate.tsx, second component) ----
  spEvent,        \* games_active_event: the active event, if any
  spPage,         \* the useState values of the page
  spCalls,         \* the calls of refreshAll
  \* ---- buildPayload of the results pages, on its own (GamesResults.tsx) ----
  pyPage,         \* the component
  pyMode,         \* scoringMode
  pyRow,          \* the fields of the row
  pyBuilt         \* what buildPayload returned, if it was called

homeVars == <<feature, loading, saving, saveTokenRef, toastOpen, toastMsg,
              appFeatures, saves, loads>>

evVars == <<evRows, evLoading, evSaving, evToastOpen, evToastMsg, evFormName,
            evDeleteTarget, evDeleteOpen, gamesEvents, gamesEventsIds, evLoad,
            evCall>>

timeVars == <<timeStr, time_ms>>

runsVars == <<runsPage, rnLoadAll, rnDisc, rnRunLoads, rnCreate, gamesDisciplines,
              gamesRuns, gamesRunsIds>>

writeVars == <<wrSite, wrMsg, wrToast>>

authVars == <<authLoading, authSession, supabaseSession, getSession, authAlive,
              requested, location, screen>>

listVars == <<lsTable, lsRows, lsMounted, lsInst, lsPage, lsLoads, lsChannel,
              lsNotes, lsSeen>>

formVars == <<fmKind, fmFields, fmBusy, fmErr, fmSave, fmRows, fmPath>>

countdownVars == <<cdPage, cdLoad, cdSave, eventStart, eventStartIds>>

runEditVars == <<storedRuns, runs, vmRuns, reLoads, reSave, reToast>>

sessionVars == <<ssEvents, ssPage, ssCall>>

resultsVars == <<rsComponent, scoringMode, runResults, runResultsIds, resultsByTeam,
                 vmRows, rsLoading, globalSaving, rsToast, rsLoad, rsRowCall,
                 rsAllCall, rsCalls>>

splitVars == <<spEvent, spPage, spCalls>>

payloadVars == <<pyPage, pyMode, pyRow, pyBuilt>>

vars == <<homeVars, evVars, timeVars, runsVars, writeVars, authVars, listVars,
          formVars, countdownVars, runEditVars, sessionVars, resultsVars, splitVars, payloadVars>>

\* What the actions of one page leave alone.
OutsideHome   == <<evVars, timeVars, runsVars, writeVars, authVars, listVars, formVars, countdownVars, runEditVars, sessionVars, resultsVars, splitVars, payloadVars>>
OutsideEvents == <<homeVars, timeVars, runsVars, writeVars, authVars, listVars, formVars, countdownVars, runEditVars, sessionVars, resultsVars, splitVars, payloadVars>>
OutsideTime   == <<homeVars, evVars, runsVars, writeVars, authVars, listVars, formVars, countdownVars, runEditVars, sessionVars, resultsVars, splitVars, payloadVars>>
OutsideRuns   == <<homeVars, evVars, timeVars, writeVars, authVars, listVars, formVars, countdownVars, runEditVars, sessionVars, resultsVars, splitVars, payloadVars>>
OutsideWrites == <<homeVars, evVars, timeVars, runsVars, authVars, listVars, formVars, countdownVars, runEditVars, sessionVars, resultsVars, splitVars, payloadVars>>
OutsideAuth   == <<homeVars, evVars, timeVars, runsVars, writeVars, listVars, formVars, countdownVars, runEditVars, sessionVars, resultsVars, splitVars, payloadVars>>
OutsideList == <<homeVars, evVars, timeVars, runsVars, writeVars, authVars, formVars, countdownVars, runEditVars, sessionVars, resultsVars, splitVars, payloadVars>>
OutsideForm == <<homeVars, evVars, timeVars, runsVars, writeVars, authVars, listVars, countdownVars, runEditVars, sessionVars, resultsVars, splitVars, payloadVars>>
OutsideCountdown == <<homeVars, evVars, timeVars, runsVars, writeVars, authVars, listVars, formVars, runEditVars, sessionVars, resultsVars, splitVars, payloadVars>>
OutsideRunEdit == <<homeVars, evVars, timeVars, runsVars, writeVars, authVars, listVars, formVars, countdownVars, sessionVars, resultsVars, splitVars, payloadVars>>
OutsideSessions == <<homeVars, evVars, timeVars, runsVars, writeVars, authVars, listVars, formVars, countdownVars, runEditVars, resultsVars, splitVars, payloadVars>>
OutsideResults == <<homeVars, evVars, timeVars, runsVars, writeVars, authVars, listVars, formVars, countdownVars, runEditVars, sessionVars, splitVars, payloadVars>>
OutsideSplit == <<homeVars, evVars, timeVars, runsVars, writeVars, authVars, listVars, formVars, countdownVars, runEditVars, sessionVars, resultsVars, payloadVars>>
OutsidePayload == <<homeVars, evVars, timeVars, runsVars, writeVars, authVars, listVars, formVars, countdownVars, runEditVars, sessionVars, resultsVars, splitVars>>

-----------------------------------------------------------------------------
(* Error messages of the platform.  A message is a sequence of words; the  *)
(* pages lower-case it and look for phrases in it.                         *)

Lower(w) ==
  CASE w = "Policy"     -> "policy"
    [] w = "RLS"        -> "rls"
    [] w = "Permission" -> "permission"
    [] OTHER            -> w

toLowerCase(msg) == [i \in 1..Len(msg) |-> Lower(msg[i])]

includes(msg, phrase) ==
  \E i \in 1..(Len(msg) - Len(phrase) + 1) :
     SubSeq(msg, i, i + Len(phrase) - 1) = phrase

MsgRls     == <<"new", "row", "violates", "row-level", "security", "policy">>
MsgTimeout == <<"timeout">>
MsgFk      == <<"violates", "foreign", "key", "constraint">>
NoError    == <<>>

-----------------------------------------------------------------------------
(* GamesHome: the feature toggle.                                          *)

MaxSaves == 2

DEFAULT_TITLE == "Spiele & Tabelle"

Bools == {"true", "false"}

Truthy(v) == v = "true"

\* A config value as the select returns it: null, an object, or a JSON string.
ConfigNull      == [kind |-> "null",   parse |-> "-",       show_tab |-> "undefined"]
ConfigObj(st)   == [kind |-> "object", parse |-> "-",       show_tab |-> st]
ConfigStr(p,st) == [kind |-> "string", parse |-> p,         show_tab |-> st]

\* normalizeConfig(config).show_tab: "true", "false" or "undefined"
normalizeConfig(config) ==
  IF config.kind = "null" THEN "true"
  ELSE IF config.kind = "string" THEN
         IF config.parse = "object" THEN config.show_tab
         ELSE "true"
  ELSE config.show_tab

FeatureOfRow(row, dflt) ==
  [enabled |-> Truthy(row.enabled),
   showTab |-> LET st == normalizeConfig(row.config)
               IN  IF st # "undefined" THEN Truthy(st) ELSE dflt,
   title   |-> IF row.title = "null" THEN DEFAULT_TITLE ELSE row.title]

\* The row an upsert of `next` writes (save's payload).
SavePayload(next) ==
  [enabled |-> IF next.enabled THEN "true" ELSE "false",
   title   |-> next.title,
   config  |-> ConfigObj(IF next.showTab THEN "true" ELSE "false")]

\* ensureRow's payload.
EnsurePayload ==
  [enabled |-> "false", title |-> DEFAULT_TITLE, config |-> ConfigObj("true")]

\* Rows the table may hold when the page is opened.
InitFeatureRows ==
  { [enabled |-> "true",  title |-> DEFAULT_TITLE, config |-> ConfigObj("false")],
    [enabled |-> "null",  title |-> "null",        config |-> ConfigNull],
    [enabled |-> "true",  title |-> "Games",       config |-> ConfigStr("object", "false")] }

\* Errors a write and a read may end with.
HomeErrors == {MsgRls, MsgTimeout}
LoadErrors == {MsgTimeout}

NoRes  == [error |-> NoError, data |-> {}]
NoFeat == [enabled |-> FALSE, showTab |-> TRUE, title |-> DEFAULT_TITLE]

IdleSave == [pc |-> "none", next |-> NoFeat, prev |-> NoFeat, res |-> NoRes,
             outcome |-> "-"]
IdleLoad == [pc |-> "none", res |-> NoRes]

Toast(text, arg) == [text |-> text, arg |-> arg]

HomeInit ==
  /\ feature = [enabled |-> FALSE, showTab |-> TRUE, title |-> DEFAULT_TITLE]
  /\ loading = TRUE
  /\ saving = FALSE
  /\ saveTokenRef = 0
  /\ toastOpen = FALSE
  /\ toastMsg = Toast("", NoError)
  /\ appFeatures \in {{}} \cup {{r} : r \in InitFeatureRows}
  /\ saves = [k \in 1..MaxSaves |-> IdleSave]
  \* useEffect(() => void load(), []): the mount load is in flight
  /\ loads = [l \in 0..MaxSaves |-> IF l = 0 THEN [pc |-> "q1_sent", res |-> NoRes]
                                             ELSE IdleLoad]

\* The toggle handlers (setEnabled, setShowTab) followed by save() up to its
\* await: optimistic update, saving flag, a new token, the upsert request.
\* The toggles exist only while the list is rendered ({loading ? <IonSpinner/>
\* : <IonList>...}).  IonToggle emits ionChange on every change of `checked`,
\* so `disabled={saving}` does not hold the handlers back: a second save may
\* start while the first is in flight, which is what saveTokenRef is for.
StartSave(next) ==
  LET token == saveTokenRef + 1 IN
  /\ saveTokenRef < MaxSaves
  /\ ~loading
  /\ feature' = next
  /\ saving' = TRUE
  /\ saveTokenRef' = token
  /\ saves' = [saves EXCEPT ![token] =
                 [pc |-> "sent", next |-> next, prev |-> feature,
                  res |-> NoRes, outcome |-> "-"]]
  /\ UNCHANGED <<loading, toastOpen, toastMsg, appFeatures, loads>>
  /\ UNCHANGED OutsideHome

setEnabled(checked) == StartSave([feature EXCEPT !.enabled = checked])

setShowTab(checked) == StartSave([feature EXCEPT !.showTab = checked])

\* The platform executes the upsert of save k.
ServerUpsert(k) ==
  /\ saves[k].pc = "sent"
  /\ \/ \E data \in {{SavePayload(saves[k].next)}, {}} :
          /\ appFeatures' = {SavePayload(saves[k].next)}
          /\ saves' = [saves EXCEPT ![k].pc = "replied",
                                    ![k].res = [error |-> NoError, data |-> data]]
     \/ \E e \in HomeErrors :
          /\ appFeatures' = appFeatures
          /\ saves' = [saves EXCEPT ![k].pc = "replied",
                                    ![k].res = [error |-> e, data |-> {}]]
  /\ UNCHANGED <<feature, loading, saving, saveTokenRef, toastOpen, toastMsg,
                 loads>>
  /\ UNCHANGED OutsideHome

IsStaleNever(token) == FALSE

\* if (token !== saveTokenRef.current) return;
IsStale(token) == token # saveTokenRef

RevertedKeepsNext(prev, next) == next

\* setFeature(prev); // revert
Reverted(prev, next) == prev

SaveErrorToast(msg) ==
  LET lower == toLowerCase(msg) IN
  IF includes(lower, <<"row-level", "security">>) \/ includes(lower, <<"policy">>)
  THEN Toast("Save geblockt: RLS/Policy verhindert UPDATE/UPSERT.", NoError)
  ELSE Toast("Save Fehler: ", msg)

\* save() resumes after its await.
SaveResponse(k) ==
  LET s == saves[k] IN
  /\ s.pc = "replied"
  /\ IF IsStale(k) THEN
       /\ saves' = [saves EXCEPT ![k].pc = "done", ![k].outcome = "ignored"]
       /\ UNCHANGED <<feature, loading, saving, toastOpen, toastMsg, loads>>
     ELSE IF s.res.error # NoError THEN
       /\ saving' = FALSE
       /\ feature' = Reverted(s.prev, s.next)
       /\ toastMsg' = SaveErrorToast(s.res.error)
       /\ toastOpen' = TRUE
            /\ saves' = [saves EXCEPT ![k].pc = "done", ![k].outcome = "reverted"]
       /\ UNCHANGED <<loading, loads>>
     ELSE
       /\ saving' = FALSE
       /\ feature' = IF s.res.data # {}
                     THEN FeatureOfRow(CHOOSE r \in s.res.data : TRUE, s.next.showTab)
                     ELSE feature
       /\ toastMsg' = Toast("Gespeichert.", NoError)
       /\ toastOpen' = TRUE
            /\ saves' = [saves EXCEPT ![k].pc = "done", ![k].outcome = "saved"]
       \* await load(): setLoading(true) and the first select
       /\ loading' = TRUE
       /\ loads' = [loads EXCEPT ![k] = [pc |-> "q1_sent", res |-> NoRes]]
  /\ UNCHANGED <<saveTokenRef, appFeatures>>
  /\ UNCHANGED OutsideHome

\* The platform executes a select of load l (the first or the second one).
ServerSelect(l) ==
  /\ loads[l].pc \in {"q1_sent", "q2_sent"}
  /\ LET replied == IF loads[l].pc = "q1_sent" THEN "q1_replied" ELSE "q2_replied" IN
     \/ loads' = [loads EXCEPT ![l] = [pc |-> replied,
                     res |-> [error |-> NoError, data |-> appFeatures]]]
     \/ \E e \in LoadErrors :
          loads' = [loads EXCEPT ![l] = [pc |-> replied,
                     res |-> [error |-> e, data |-> {}]]]
  /\ UNCHANGED <<feature, loading, saving, saveTokenRef, toastOpen, toastMsg,
                 appFeatures, saves>>
  /\ UNCHANGED OutsideHome

\* The platform executes ensureRow's upsert of load l.
ServerEnsure(l) ==
  /\ loads[l].pc = "ensure_sent"
  /\ \/ /\ appFeatures' = {EnsurePayload}
        /\ loads' = [loads EXCEPT ![l] = [pc |-> "ensure_replied", res |-> NoRes]]
     \/ \E e \in LoadErrors :
          /\ appFeatures' = appFeatures
          /\ loads' = [loads EXCEPT ![l] = [pc |-> "ensure_replied",
                          res |-> [error |-> e, data |-> {}]]]
  /\ UNCHANGED <<feature, loading, saving, saveTokenRef, toastOpen, toastMsg,
                 saves>>
  /\ UNCHANGED OutsideHome

\* catch (e) { toast(`Load/Init Fehler: ${msg}`) } finally { setLoading(false) }
LoadFailed(l, msg) ==
  /\ toastMsg' = Toast("Load/Init Fehler: ", msg)
  /\ toastOpen' = TRUE
  /\ loading' = FALSE
  /\ loads' = [loads EXCEPT ![l].pc = "done"]
  /\ UNCHANGED feature

LoadShown(l, row) ==
  /\ feature' = FeatureOfRow(row, TRUE)
  /\ loading' = FALSE
  /\ loads' = [loads EXCEPT ![l].pc = "done"]
  /\ UNCHANGED <<toastMsg, toastOpen>>

MsgStillNull == <<"Konnte", "Feature-Row", "nicht", "anlegen">>

\* load() resumes after one of its awaits.
LoadResponse(l) ==
  LET r == loads[l].res IN
  /\ loads[l].pc \in {"q1_replied", "ensure_replied", "q2_replied"}
  /\ IF r.error # NoError THEN LoadFailed(l, r.error)
     ELSE IF loads[l].pc = "q1_replied" THEN
       IF r.data = {}
       THEN /\ loads' = [loads EXCEPT ![l] = [pc |-> "ensure_sent", res |-> NoRes]]
            /\ UNCHANGED <<feature, loading, toastMsg, toastOpen>>
       ELSE LoadShown(l, CHOOSE row \in r.data : TRUE)
     ELSE IF loads[l].pc = "ensure_replied" THEN
       /\ loads' = [loads EXCEPT ![l] = [pc |-> "q2_sent", res |-> NoRes]]
       /\ UNCHANGED <<feature, loading, toastMsg, toastOpen>>
     ELSE
       IF r.data = {} THEN LoadFailed(l, MsgStillNull)
       ELSE LoadShown(l, CHOOSE row \in r.data : TRUE)
  /\ UNCHANGED <<saving, saveTokenRef, appFeatures, saves>>
  /\ UNCHANGED OutsideHome

\* onDidDismiss={() => setToastOpen(false)}
ToastDismiss ==
  /\ toastOpen
  /\ toastOpen' = FALSE
  /\ UNCHANGED <<feature, loading, saving, saveTokenRef, toastMsg,
                 appFeatures, saves, loads>>
  /\ UNCHANGED OutsideHome

HomeNext ==
  \/ \E checked \in BOOLEAN : setEnabled(checked)
  \/ \E checked \in BOOLEAN : setShowTab(checked)
  \/ \E k \in 1..MaxSaves : ServerUpsert(k)
  \/ \E k \in 1..MaxSaves : SaveResponse(k)
  \/ \E l \in 0..MaxSaves : ServerSelect(l)
  \/ \E l \in 0..MaxSaves : ServerEnsure(l)
  \/ \E l \in 0..MaxSaves : LoadResponse(l)
  \/ ToastDismiss

-----------------------------------------------------------------------------
(* Claims about the feature toggle.                                        *)

SaveErrorTexts ==
  {"Save geblockt: RLS/Policy verhindert UPDATE/UPSERT.", "Save Fehler: "}

\* save k resumes with its reply in this step
SaveResumes(k) == saves[k].pc = "replied" /\ saves'[k].pc = "done"

\* C1: when saves overlap, the reply of a save that is no longer the most
\* recently started one changes neither the displayed feature state
\* (enabled, show_tab, title) nor the toast.
C1_StaleReplyChangesNothing ==
  [][\A k \in 1..MaxSaves :
       (SaveResumes(k) /\ k # saveTokenRef)
         => /\ feature' = feature
            /\ toastMsg' = toastMsg
            /\ toastOpen' = toastOpen]_vars

\* A failed save was overtaken by a newer one and its reply was dropped.
C1_Witness ==
  \E k \in 1..MaxSaves :
     /\ saves[k].outcome = "ignored"
     /\ saves[k].res.error # NoError
     /\ k < saveTokenRef

-----------------------------------------------------------------------------
(* GamesEvents: the list of events, create, set active, delete.            *)

MaxEvents == 3

EventIds == 1..MaxEvents

EventRow(i, a) == [id |-> i, active |-> a]

Ids(rows) == {r.id : r \in rows}

ActiveIds(rows) == {r.id : r \in {x \in rows : x.active}}

\* Tables with one row per id.
EventTables ==
  {t \in SUBSET {EventRow(i, a) : i \in EventIds, a \in BOOLEAN} :
     \A r1, r2 \in t : r1.id = r2.id => r1 = r2}

EvErrors == {MsgRls, MsgTimeout}

EvNoRes == [error |-> NoError, data |-> {}]

\* before: the events that were active when the handler was called (history,
\* read by the claims only)
EvIdleCall == [op |-> "none", arg |-> 0, pc |-> "none", res |-> EvNoRes,
               outcome |-> "-", before |-> {}]

FormNames == {"", "Sommerfest"}

\* form.name.trim().length > 0
canCreate == evFormName # ""

EventsInit ==
  /\ evRows = {}
  /\ evLoading = TRUE
  /\ evSaving = FALSE
  /\ evToastOpen = FALSE
  /\ evToastMsg = Toast("", NoError)
  /\ evFormName = ""
  /\ evDeleteTarget = {}
  /\ evDeleteOpen = FALSE
  \* the table as the page finds it: the events created so far, fewer than
  \* MaxEvents, so that one more can be created
  /\ gamesEventsIds \in 0..(MaxEvents - 1)
  /\ gamesEvents \in {t \in EventTables : Ids(t) = 1..gamesEventsIds}
  \* useEffect(() => void load(), [])
  /\ evLoad = [pc |-> "sent", res |-> EvNoRes]
  /\ evCall = EvIdleCall

EvToast(text, arg) ==
  /\ evToastMsg' = Toast(text, arg)
  /\ evToastOpen' = TRUE

\* The RLS/policy test of the three catch blocks.
EvIsRowLevelOnly(msg) == includes(toLowerCase(msg), <<"row-level", "security">>)

EvIsPolicy(msg) ==
  LET lower == toLowerCase(msg) IN
  includes(lower, <<"row-level", "security">>) \/ includes(lower, <<"policy">>)

EvIsSchemaCache(msg) ==
  LET lower == toLowerCase(msg) IN
  includes(lower, <<"schema", "cache">>) \/ includes(lower, <<"could", "not", "find">>)

EvIsFk(msg) ==
  LET lower == toLowerCase(msg) IN
  includes(lower, <<"violates", "foreign", "key">>) \/ includes(lower, <<"foreign", "key">>)

CreateErrorToast(msg) ==
  IF EvIsPolicy(msg)
  THEN Toast("Create geblockt: RLS/Policy verhindert INSERT auf games_events.", NoError)
  ELSE Toast("Create Fehler: ", msg)

SetActiveErrorToast(msg) ==
  IF EvIsPolicy(msg)
  THEN Toast("Aktiv setzen geblockt: RLS/Policy verhindert UPDATE auf games_events.", NoError)
  ELSE IF EvIsSchemaCache(msg)
  THEN Toast("Schema-Cache: reload schema ausfuehren und hart neu laden.", NoError)
  ELSE Toast("Aktiv setzen Fehler: ", msg)

DeleteErrorToast(msg) ==
  IF EvIsPolicy(msg)
  THEN Toast("Delete geblockt: RLS/Policy verhindert DELETE auf games_events.", NoError)
  ELSE IF EvIsFk(msg)
  THEN Toast("Delete nicht moeglich: Es haengen noch Daten dran (FK).", NoError)
  ELSE Toast("Delete Fehler: ", msg)

\* The page's buttons can be pressed: no confirm dialog lies over them.
EvUiFree == ~evDeleteOpen

\* The reload button: disabled={loading || saving}.
EvReload ==
  /\ EvUiFree /\ ~evLoading /\ ~evSaving
  /\ evLoad.pc \in {"none", "done"}
  /\ evLoading' = TRUE
  /\ evLoad' = [pc |-> "sent", res |-> EvNoRes]
  /\ UNCHANGED <<evRows, evSaving, evToastOpen, evToastMsg, evFormName,
                 evDeleteTarget, evDeleteOpen, gamesEvents, gamesEventsIds, evCall>>
  /\ UNCHANGED OutsideEvents

\* The platform executes the select of the mount/reload load.
EvServerLoad ==
  /\ evLoad.pc = "sent"
  /\ \/ evLoad' = [pc |-> "replied", res |-> [error |-> NoError, data |-> gamesEvents]]
     \/ \E e \in EvErrors :
          evLoad' = [pc |-> "replied", res |-> [error |-> e, data |-> {}]]
  /\ UNCHANGED <<evRows, evLoading, evSaving, evToastOpen, evToastMsg, evFormName,
                 evDeleteTarget, evDeleteOpen, gamesEvents, gamesEventsIds, evCall>>
  /\ UNCHANGED OutsideEvents

\* load() after its await: setLoading(false), then the rows or the error.
EvLoadShown(res) ==
  /\ evLoading' = FALSE
  /\ IF res.error # NoError
     THEN /\ EvToast("Load Fehler: ", res.error)
          /\ evRows' = {}
     ELSE /\ evRows' = res.data
          /\ UNCHANGED <<evToastOpen, evToastMsg>>

EvLoadResponse ==
  /\ evLoad.pc = "replied"
  /\ EvLoadShown(evLoad.res)
  /\ evLoad' = [evLoad EXCEPT !.pc = "done"]
  /\ UNCHANGED <<evSaving, evFormName, evDeleteTarget, evDeleteOpen, gamesEvents, gamesEventsIds, evCall>>
  /\ UNCHANGED OutsideEvents

\* The name input: disabled={saving}.
EvSetFormName(n) ==
  /\ EvUiFree /\ ~evSaving
  /\ evFormName' = n
  /\ UNCHANGED <<evRows, evLoading, evSaving, evToastOpen, evToastMsg,
                 evDeleteTarget, evDeleteOpen, gamesEvents, gamesEventsIds, evLoad, evCall>>
  /\ UNCHANGED OutsideEvents

EvStartCall(op, arg, pc) ==
  /\ evSaving' = TRUE
  /\ evCall' = [op |-> op, arg |-> arg, pc |-> pc, res |-> EvNoRes, outcome |-> "-",
                before |-> ActiveIds(gamesEvents)]

\* createEvent up to its await; the button: disabled={!canCreate || saving}.
createEvent ==
  /\ EvUiFree /\ ~evSaving /\ canCreate
  /\ EvStartCall("createEvent", 0, "insert_sent")
  /\ UNCHANGED <<evRows, evLoading, evToastOpen, evToastMsg, evFormName,
                 evDeleteTarget, evDeleteOpen, gamesEvents, gamesEventsIds, evLoad>>
  /\ UNCHANGED OutsideEvents

\* setActive up to its first await; the button is in the list, which is
\* rendered when not loading, and has disabled={saving}.
setActive(eventId) ==
  /\ EvUiFree /\ ~evSaving /\ ~evLoading
  /\ eventId \in Ids(evRows)
  /\ EvStartCall("setActive", eventId, "off_sent")
  /\ UNCHANGED <<evRows, evLoading, evToastOpen, evToastMsg, evFormName,
                 evDeleteTarget, evDeleteOpen, gamesEvents, gamesEventsIds, evLoad>>
  /\ UNCHANGED OutsideEvents

\* requestDelete; the button: disabled={saving || !!r.active}.
requestDelete(row) ==
  /\ EvUiFree /\ ~evSaving /\ ~evLoading
  /\ row \in evRows /\ ~row.active
  /\ evDeleteTarget' = {row}
  /\ evDeleteOpen' = TRUE
  /\ UNCHANGED <<evRows, evLoading, evSaving, evToastOpen, evToastMsg, evFormName,
                 gamesEvents, gamesEventsIds, evLoad, evCall>>
  /\ UNCHANGED OutsideEvents

\* The confirm dialog is dismissed without deleting.
EvDeleteCancel ==
  /\ evDeleteOpen
  /\ evDeleteOpen' = FALSE
  /\ UNCHANGED <<evRows, evLoading, evSaving, evToastOpen, evToastMsg, evFormName,
                 evDeleteTarget, gamesEvents, gamesEventsIds, evLoad, evCall>>
  /\ UNCHANGED OutsideEvents

\* deleteEvent up to its await (the dialog's "Loeschen" button).
deleteEvent ==
  /\ evDeleteOpen
  /\ evDeleteOpen' = FALSE
  /\ IF evDeleteTarget = {} THEN
       UNCHANGED <<evSaving, evCall, evToastOpen, evToastMsg, evDeleteTarget>>
     ELSE LET target == CHOOSE r \in evDeleteTarget : TRUE IN
       IF target.active THEN
         \* toast, return; finally { setSaving(false); setDeleteTarget(null) }
         /\ EvToast("Aktives Event kann nicht geloescht werden.", NoError)
         /\ evSaving' = FALSE
         /\ evDeleteTarget' = {}
         /\ UNCHANGED evCall
       ELSE
         /\ EvStartCall("deleteEvent", target.id, "delete_sent")
         /\ UNCHANGED <<evToastOpen, evToastMsg, evDeleteTarget>>
  /\ UNCHANGED <<evRows, evLoading, evFormName, gamesEvents, gamesEventsIds, evLoad>>
  /\ UNCHANGED OutsideEvents

\* The platform executes the request of the handler in flight.
EvServerCall ==
  LET c == evCall IN
  /\ c.pc \in {"insert_sent", "off_sent", "on_sent", "delete_sent", "load_sent"}
  /\ \/ \E e \in EvErrors :
          /\ evCall' = [c EXCEPT !.pc = "replied:" \o c.pc,
                                 !.res = [error |-> e, data |-> {}]]
          /\ UNCHANGED <<gamesEvents, gamesEventsIds>>
     \/ /\ c.pc = "insert_sent"
        \* insert({..., active: false}): a row with a new id
        /\ gamesEventsIds < MaxEvents
        /\ gamesEventsIds' = gamesEventsIds + 1
        /\ gamesEvents' = gamesEvents \cup {EventRow(gamesEventsIds + 1, FALSE)}
        /\ evCall' = [c EXCEPT !.pc = "replied:" \o c.pc]
     \/ /\ c.pc = "off_sent"
        \* update({active: false}).eq("active", true)
        /\ gamesEvents' = {EventRow(r.id, FALSE) : r \in gamesEvents}
        /\ UNCHANGED gamesEventsIds
        /\ evCall' = [c EXCEPT !.pc = "replied:" \o c.pc]
     \/ /\ c.pc = "on_sent"
        \* update({active: true}).eq("id", eventId)
        /\ gamesEvents' = {IF r.id = c.arg THEN EventRow(r.id, TRUE) ELSE r : r \in gamesEvents}
        /\ UNCHANGED gamesEventsIds
        /\ evCall' = [c EXCEPT !.pc = "replied:" \o c.pc]
     \/ /\ c.pc = "delete_sent"
        \* delete().eq("id", target.id)
        /\ gamesEvents' = {r \in gamesEvents : r.id # c.arg}
        /\ UNCHANGED gamesEventsIds
        /\ evCall' = [c EXCEPT !.pc = "replied:" \o c.pc]
     \/ /\ c.pc = "load_sent"
        /\ evCall' = [c EXCEPT !.pc = "replied:" \o c.pc,
                               !.res = [error |-> NoError, data |-> gamesEvents]]
        /\ UNCHANGED <<gamesEvents, gamesEventsIds>>
  /\ UNCHANGED <<evRows, evLoading, evSaving, evToastOpen, evToastMsg, evFormName,
                 evDeleteTarget, evDeleteOpen, evLoad>>
  /\ UNCHANGED OutsideEvents

\* catch (e) { toast(...) } finally { setSaving(false) }
EvCallFailed(toastMsg_) ==
  /\ evToastMsg' = toastMsg_
  /\ evToastOpen' = TRUE
  /\ evSaving' = FALSE
  /\ evCall' = [evCall EXCEPT !.pc = "done", !.outcome = "error"]
  /\ evDeleteTarget' = IF evCall.op = "deleteEvent" THEN {} ELSE evDeleteTarget
  /\ UNCHANGED <<evRows, evLoading, evFormName>>

\* toast(done); await load()
EvCallReloads(text) ==
  /\ EvToast(text, NoError)
  /\ evLoading' = TRUE
  /\ evCall' = [evCall EXCEPT !.pc = "load_sent", !.res = EvNoRes]
  /\ UNCHANGED <<evRows, evSaving, evDeleteTarget>>

\* The handler in flight resumes after one of its awaits.
EvCallResponse ==
  LET c == evCall IN
  /\ c.pc \in {"replied:insert_sent", "replied:off_sent", "replied:on_sent",
               "replied:delete_sent", "replied:load_sent"}
  /\ IF c.pc = "replied:load_sent" THEN
       \* load() finishes, then the handler's finally block
       /\ EvLoadShown(c.res)
       /\ evSaving' = FALSE
       /\ evCall' = [c EXCEPT !.pc = "done", !.outcome = "ok"]
       /\ evDeleteTarget' = IF c.op = "deleteEvent" THEN {} ELSE evDeleteTarget
       /\ UNCHANGED evFormName
     ELSE IF c.res.error # NoError THEN
       CASE c.op = "createEvent" -> EvCallFailed(CreateErrorToast(c.res.error))
         [] c.op = "setActive"   -> EvCallFailed(SetActiveErrorToast(c.res.error))
         [] OTHER                -> EvCallFailed(DeleteErrorToast(c.res.error))
     ELSE IF c.pc = "replied:insert_sent" THEN
       \* toast; resetForm(); await load()
       /\ EvCallReloads("Event angelegt.")
       /\ evFormName' = ""
     ELSE IF c.pc = "replied:off_sent" THEN
       /\ evCall' = [c EXCEPT !.pc = "on_sent", !.res = EvNoRes]
       /\ UNCHANGED <<evRows, evLoading, evSaving, evToastOpen, evToastMsg,
                      evFormName, evDeleteTarget>>
     ELSE IF c.pc = "replied:on_sent" THEN
       /\ EvCallReloads("Event aktiv gesetzt.")
       /\ UNCHANGED evFormName
     ELSE
       /\ EvCallReloads("Event geloescht.")
       /\ UNCHANGED evFormName
  /\ UNCHANGED <<evDeleteOpen, gamesEvents, gamesEventsIds, evLoad>>
  /\ UNCHANGED OutsideEvents

EventsNext ==
  \/ EvReload
  \/ EvServerLoad
  \/ EvLoadResponse
  \/ \E n \in FormNames : EvSetFormName(n)
  \/ createEvent
  \/ \E i \in EventIds : setActive(i)
  \/ \E row \in evRows : requestDelete(row)
  \/ EvDeleteCancel
  \/ deleteEvent
  \/ EvServerCall
  \/ EvCallResponse

-----------------------------------------------------------------------------
(* GamesEvents: claims.                                                    *)

\* setActive(eventId) has run to its end and none of its requests failed.
SetActiveCompleted ==
  evCall.op = "setActive" /\ evCall.pc = "done" /\ evCall.outcome = "ok"

\* C3: after setActive(eventId) has completed without error, exactly one
\* event is active, and it is eventId.
C3_ExactlyThatEventActive ==
  SetActiveCompleted => ActiveIds(gamesEvents) = {evCall.arg}

-----------------------------------------------------------------------------
(* Time entry on the result pages.  A text is a sequence of characters.    *)

DigitChars == <<"0", "1", "2", "3", "4", "5", "6", "7", "8", "9">>

IsDigit(c) == \E i \in DOMAIN DigitChars : DigitChars[i] = c

DigitVal(c) == (CHOOSE i \in DOMAIN DigitChars : DigitChars[i] = c) - 1

AllDigits(s) == \A i \in 1..Len(s) : IsDigit(s[i])

RECURSIVE DigitsVal(_)
DigitsVal(s) ==
  IF s = <<>> THEN 0
  ELSE DigitsVal(SubSeq(s, 1, Len(s) - 1)) * 10 + DigitVal(s[Len(s)])

RECURSIVE Pow10(_)
Pow10(k) == IF k = 0 THEN 1 ELSE 10 * Pow10(k - 1)

\* String.prototype.trim
RECURSIVE trim(_)
trim(s) ==
  IF s # <<>> /\ Head(s) = " " THEN trim(Tail(s))
  ELSE IF s # <<>> /\ s[Len(s)] = " " THEN trim(SubSeq(s, 1, Len(s) - 1))
  ELSE s

\* String.prototype.indexOf, 1-based; 0 when c does not occur
indexOf(s, c) ==
  IF \E i \in 1..Len(s) : s[i] = c
  THEN CHOOSE i \in 1..Len(s) : s[i] = c /\ \A j \in 1..(i - 1) : s[j] # c
  ELSE 0

\* s.includes(c) for a single character
includesChar(s, c) == indexOf(s, c) # 0

\* s.split(c)
RECURSIVE split(_, _)
split(s, c) ==
  LET i == indexOf(s, c) IN
  IF i = 0 THEN <<s>>
  ELSE <<SubSeq(s, 1, i - 1)>> \o split(SubSeq(s, i + 1, Len(s)), c)

\* s.replace(from, to) with a string pattern: the first occurrence only
replace(s, from, to) ==
  LET i == indexOf(s, from) IN
  IF i = 0 THEN s ELSE [s EXCEPT ![i] = to]

\* frac.padEnd(width, c)
RECURSIVE padEnd(_, _, _)
padEnd(s, width, c) == IF Len(s) >= width THEN s ELSE padEnd(s \o <<c>>, width, c)

\* A JavaScript number with a finite decimal expansion: mant / 10^scale.
NaN == [finite |-> FALSE, mant |-> 0, scale |-> 0]

Num(mant, scale) == [finite |-> TRUE, mant |-> mant, scale |-> scale]

\* Number(text), for texts of digits, ".", other characters and blanks:
\* whitespace is trimmed, the empty text is 0, "12.", ".5" and "1.5" are
\* numbers, anything else is NaN.
Number(text) ==
  LET t == trim(text)
      parts == split(t, ".")
  IN IF t = <<>> THEN Num(0, 0)
     ELSE IF Len(parts) = 1 /\ AllDigits(t) THEN Num(DigitsVal(t), 0)
     ELSE IF /\ Len(parts) = 2
             /\ AllDigits(parts[1]) /\ AllDigits(parts[2])
             /\ Len(parts[1]) + Len(parts[2]) > 0
          THEN Num(DigitsVal(parts[1] \o parts[2]), Len(parts[2]))
     ELSE NaN

\* x * k and x + y
NumTimes(x, k) == Num(x.mant * k, x.scale)

NumPlus(x, y) ==
  IF x.scale >= y.scale
  THEN Num(x.mant + y.mant * Pow10(x.scale - y.scale), x.scale)
  ELSE Num(x.mant * Pow10(y.scale - x.scale) + y.mant, y.scale)

MinutesInSecondsDecimal(m) == NumTimes(m, 100)

\* m * 60
MinutesInSeconds(m) == NumTimes(m, 60)

\* Math.round(x): floor(x + 1/2), x >= 0.  The texts entered carry so few
\* fraction digits that the floating-point product lies far less than 1/2
\* from the exact one.
MathRound(x) ==
  LET den == Pow10(x.scale) IN (2 * x.mant + den) \div (2 * den)

\* Number.isInteger(n), Math.trunc(n)
isInteger(n) == n.mant % Pow10(n.scale) = 0

MathTrunc(n) == n.mant \div Pow10(n.scale)

\* n >= 1000
AtLeast1000(n) == n.mant >= 1000 * Pow10(n.scale)

\* number | null
Null == [ok |-> FALSE, ms |-> 0]

Ms(n) == [ok |-> TRUE, ms |-> n]

\* GamesResults.tsx, parseTimeToMs
parseTimeToMs(v) ==
  LET s == trim(v) IN
  IF s = <<>> THEN Null
  ELSE IF includesChar(s, ":") THEN
    LET parts == split(s, ":")
        m == Number(parts[1])
        sec == Number(replace(parts[2], ",", "."))
    IN IF ~m.finite THEN Null
       ELSE IF ~sec.finite THEN Null
       ELSE Ms(MathRound(NumTimes(NumPlus(MinutesInSeconds(m), sec), 1000)))
  ELSE
    LET n == Number(replace(s, ",", ".")) IN
    IF ~n.finite THEN Null
    ELSE IF isInteger(n) /\ AtLeast1000(n) THEN Ms(MathTrunc(n))
    ELSE Ms(MathRound(NumTimes(n, 1000)))

\* GamesResults.tsx, parseMsFromMSS
parseMsFromMSS(v) ==
  LET s == trim(v) IN
  IF s = <<>> THEN Null
  ELSE IF includesChar(s, ":") THEN
    LET parts == split(s, ":")
        m == Number(parts[1])
        sec == Number(replace(parts[2], ",", "."))
    IN IF ~m.finite \/ ~sec.finite THEN Null
       ELSE Ms(MathRound(NumTimes(NumPlus(NumTimes(m, 60), sec), 1000)))
  ELSE
    LET n == Number(replace(s, ",", ".")) IN
    IF ~n.finite THEN Null
    ELSE IF AtLeast1000(n) /\ isInteger(n) THEN Ms(MathTrunc(n))
    ELSE Ms(MathRound(NumTimes(n, 1000)))

\* /^\d+(\.\d+)?$/.test(s)
IsPlainNumber(s) ==
  LET parts == split(s, ".") IN
  /\ Len(parts) \in {1, 2}
  /\ \A i \in 1..Len(parts) : parts[i] # <<>> /\ AllDigits(parts[i])

\* s.match(/^(\d+):(\d{1,2})(?:\.(\d{1,3}))?$/): the groups, g3 empty when
\* the fraction is absent
NoMatch == [matched |-> FALSE, g1 |-> <<>>, g2 |-> <<>>, g3 |-> <<>>]

MatchMSS(s) ==
  LET parts == split(s, ":") IN
  IF Len(parts) # 2 \/ parts[1] = <<>> \/ ~AllDigits(parts[1]) THEN NoMatch
  ELSE
    LET rest == split(parts[2], ".") IN
    IF /\ Len(rest) \in {1, 2}
       /\ Len(rest[1]) \in {1, 2} /\ AllDigits(rest[1])
       /\ Len(rest) = 2 => (Len(rest[2]) \in {1, 2, 3} /\ AllDigits(rest[2]))
    THEN [matched |-> TRUE, g1 |-> parts[1], g2 |-> rest[1],
          g3 |-> IF Len(rest) = 2 THEN rest[2] ELSE <<>>]
    ELSE NoMatch

\* part_005, parseTimeToMs
parseTimeToMs_part005(input) ==
  LET s == trim(input) IN
  IF s = <<>> THEN Null
  ELSE IF IsPlainNumber(s) THEN Ms(MathRound(NumTimes(Number(s), 1000)))
  ELSE
    LET m == MatchMSS(s) IN
    IF ~m.matched THEN Null
    ELSE
      LET mm == Number(m.g1).mant
          ss == Number(m.g2).mant
          frac == IF m.g3 # <<>> THEN m.g3 ELSE <<"0">>
          ms == Number(SubSeq(padEnd(frac, 3, "0"), 1, 3)).mant
      IN IF ss >= 60 THEN Null
         ELSE Ms(mm * 60000 + ss * 1000 + ms)

\* The texts an admin types into a time field.
MaxMinutes == 11

RECURSIVE ToChars(_)
ToChars(n) ==
  IF n < 10 THEN <<DigitChars[n + 1]>>
  ELSE ToChars(n \div 10) \o <<DigitChars[(n % 10) + 1]>>

RECURSIVE padStart(_, _, _)
padStart(s, width, c) == IF Len(s) >= width THEN s ELSE padStart(<<c>> \o s, width, c)

\* "m:ss.SSS"
MSSText(m, ss, ms) ==
  ToChars(m) \o <<":">> \o padStart(ToChars(ss), 2, "0") \o <<".">>
             \o padStart(ToChars(ms), 3, "0")

MillisTyped == {0, 1, 9, 10, 56, 99, 100, 456, 500, 909, 990, 999}

OtherTimeTexts == {
  <<>>,
  <<"8", "3", "4", "5", "6">>,
  <<"8", "3", ".", "4", "5", "6">>,
  <<"8", "3", ",", "4", "5", "6">>,
  <<"1", ":", "2", "3">>,
  <<"1", ":", "2", "3", ",", "4", "5", "6">>,
  <<" ", "1", ":", "2", "3", ".", "4", "5", "6", " ">>,
  <<"1", ":", "5", ".", "5">>,
  <<"1", ":", "2", ":", "3">>,
  <<":", "3", "0">>,
  <<"1", ":">>,
  <<"0", ":", "0", "1", ".", "2", "5", "0", "4">>,
  <<"1", ":", "2", "x">>,
  <<"1", "2", ".">>,
  <<"9", "9", "9">>}

TimeTexts ==
  {MSSText(m, ss, ms) : m \in 0..MaxMinutes, ss \in 0..99, ms \in MillisTyped}
    \cup OtherTimeTexts

Parsers == {"parseTimeToMs", "parseMsFromMSS", "parseTimeToMs_part005"}

NotParsed == [run |-> FALSE, ok |-> FALSE, ms |-> 0]

Parsed(r) == [run |-> TRUE, ok |-> r.ok, ms |-> r.ms]

TimeInit ==
  /\ timeStr \in TimeTexts
  /\ time_ms = [p \in Parsers |-> NotParsed]

\* GamesResults.tsx, validateAndBuild: time_ms = parseTimeToMs(row.timeStr)
ResultsBuildTime ==
  /\ ~time_ms["parseTimeToMs"].run
  /\ trim(timeStr) # <<>>
  /\ time_ms' = [time_ms EXCEPT !["parseTimeToMs"] = Parsed(parseTimeToMs(timeStr))]
  /\ UNCHANGED timeStr
  /\ UNCHANGED OutsideTime

\* GamesResults.tsx, buildPayload:
\* time_ms = row.timeStr.trim().length ? parseMsFromMSS(row.timeStr) : null
ResultsBuildPayloadTime ==
  /\ ~time_ms["parseMsFromMSS"].run
  /\ time_ms' = [time_ms EXCEPT !["parseMsFromMSS"] =
                   IF trim(timeStr) # <<>> THEN Parsed(parseMsFromMSS(timeStr))
                   ELSE Parsed(Null)]
  /\ UNCHANGED timeStr
  /\ UNCHANGED OutsideTime

\* part_005: const ms = parseTimeToMs(timeInput)
EntryParseTime ==
  /\ ~time_ms["parseTimeToMs_part005"].run
  /\ time_ms' = [time_ms EXCEPT !["parseTimeToMs_part005"] =
                   Parsed(parseTimeToMs_part005(timeStr))]
  /\ UNCHANGED timeStr
  /\ UNCHANGED OutsideTime

TimeNext ==
  \/ ResultsBuildTime
  \/ ResultsBuildPayloadTime
  \/ EntryParseTime

-----------------------------------------------------------------------------
(* Time entry: claims.                                                     *)

\* The text has the form m:ss.SSS: digits, ":", two digits, ".", three digits.
IsMSS(s) ==
  LET n == Len(s) IN
  /\ n >= 8
  /\ s[n - 6] = ":" /\ s[n - 3] = "."
  /\ \A i \in (1..n) \ {n - 6, n - 3} : IsDigit(s[i])

MinutesOf(s) == DigitsVal(SubSeq(s, 1, Len(s) - 7))

SecondsOf(s) == DigitsVal(SubSeq(s, Len(s) - 5, Len(s) - 4))

MillisOf(s) == DigitsVal(SubSeq(s, Len(s) - 2, Len(s)))

MSSValue(s) == MinutesOf(s) * 60000 + SecondsOf(s) * 1000 + MillisOf(s)

\* C4 as stated: for every text m:ss.SSS each parser that has run returned
\* m*60000 + ss*1000 + SSS.
C4_EveryMSS ==
  \A p \in Parsers :
    (time_ms[p].run /\ IsMSS(timeStr)) => time_ms[p] = Parsed(Ms(MSSValue(timeStr)))

\* C4, amended: for every text m:ss.SSS with ss from 00 to 59 each parser
\* that has run returned m*60000 + ss*1000 + SSS.
C4_EveryMSSUnderSixty ==
  \A p \in Parsers :
    (time_ms[p].run /\ IsMSS(timeStr) /\ SecondsOf(timeStr) <= 59)
      => time_ms[p] = Parsed(Ms(MSSValue(timeStr)))

\* "1:23.456" has gone through all three parsers and each returned 83456.
C4_Witness ==
  /\ timeStr = <<"1", ":", "2", "3", ".", "4", "5", "6">>
  /\ \A p \in Parsers : time_ms[p] = Parsed(Ms(83456))

-----------------------------------------------------------------------------
(* GamesRuns: the runs of the active event.                                *)

MaxRuns == 1

\* loadRuns() calls in flight at a time
MaxRunLoads == 2

RunRow(i, e, d) == [id |-> i, event_id |-> e, discipline_id |-> d]

DisciplineRow(i, e) == [id |-> i, event_id |-> e]

\* games_disciplines as the page finds it: event 1 and event 2 with or
\* without a discipline each
DisciplineTables == {{}, {DisciplineRow(1, 1), DisciplineRow(2, 2)}}

RnErrors == {MsgTimeout}

RnNoRes == [error |-> NoError, data |-> {}]

\* loadAll in flight: its position, the replies ev and v to the two queries
\* of loadActiveEvent, how loadActiveEvent ended ("table": the row of
\* games_events, "view": the row of the view, "null", "throw"), and the two
\* promises of Promise.all
RnIdleLoadAll ==
  [pc |-> "none", ev |-> RnNoRes, v |-> RnNoRes, returned |-> "-",
   disc |-> "-", runs |-> "-"]

RnIdleDisc == [pc |-> "none", eventId |-> {}, res |-> RnNoRes]

RnIdleCreate == [pc |-> "none", eventId |-> {}, disciplineId |-> {}, res |-> RnNoRes]

\* An id or null is a set of at most one id.
TheId(s) == CHOOSE i \in s : TRUE

RunsInit ==
  /\ runsPage = [loading |-> TRUE, savingGlobal |-> FALSE, activeEvent |-> {},
                 disciplines |-> {}, runs |-> {}, disciplineId |-> {},
                 toastOpen |-> FALSE, toastMsg |-> Toast("", NoError)]
  \* useEffect(() => void loadAll(), [])
  /\ rnLoadAll = [RnIdleLoadAll EXCEPT !.pc = "ev_sent"]
  /\ rnDisc = RnIdleDisc
  /\ rnRunLoads = <<>>
  /\ rnCreate = RnIdleCreate
  /\ gamesDisciplines \in DisciplineTables
  /\ gamesRuns = {}
  /\ gamesRunsIds = 0

CanLoadRuns == Len(rnRunLoads) < MaxRunLoads

\* loadRuns(eventId) up to its await
StartLoadRuns(owner, eventId) ==
  rnRunLoads' = Append(rnRunLoads, [pc |-> "sent", owner |-> owner,
                                    eventId |-> eventId, res |-> RnNoRes])

Without(seq, k) == SubSeq(seq, 1, k - 1) \o SubSeq(seq, k + 1, Len(seq))

\* The reload button: disabled={loading || savingGlobal}.  A new loadAll
\* starts once the requests of the previous one have been answered.
loadAll ==
  /\ ~runsPage.loading /\ ~runsPage.savingGlobal
  /\ rnLoadAll.pc \in {"none", "done"}
  /\ rnDisc.pc = "none"
  /\ \A k \in 1..Len(rnRunLoads) : rnRunLoads[k].owner # "loadAll"
  /\ CanLoadRuns
  /\ runsPage' = [runsPage EXCEPT !.loading = TRUE]
  /\ rnLoadAll' = [RnIdleLoadAll EXCEPT !.pc = "ev_sent"]
  /\ UNCHANGED <<rnDisc, rnRunLoads, rnCreate, gamesDisciplines, gamesRuns, gamesRunsIds>>
  /\ UNCHANGED OutsideRuns

\* games_events .eq("active", true).limit(1).maybeSingle()
ServerActiveEvent ==
  /\ rnLoadAll.pc = "ev_sent"
  /\ \E reply \in {[error |-> e, data |-> {}] : e \in RnErrors}
                    \cup {[error |-> NoError, data |-> {i}] : i \in ActiveIds(gamesEvents)}
                    \cup {r \in {RnNoRes} : ActiveIds(gamesEvents) = {}} :
       rnLoadAll' = [rnLoadAll EXCEPT !.pc = "ev_replied", !.ev = reply]
  /\ UNCHANGED <<runsPage, rnDisc, rnRunLoads, rnCreate, gamesDisciplines, gamesRuns, gamesRunsIds>>
  /\ UNCHANGED OutsideRuns

\* The view games_active_event, whose definition lives in the database: it
\* is missing or fails, is empty, or yields an event.
ServerActiveEventView ==
  /\ rnLoadAll.pc = "view_sent"
  /\ \E reply \in {[error |-> e, data |-> {}] : e \in RnErrors}
                    \cup {[error |-> NoError, data |-> {i}] : i \in Ids(gamesEvents)}
                    \cup {RnNoRes} :
       rnLoadAll' = [rnLoadAll EXCEPT !.pc = "view_replied", !.v = reply]
  /\ UNCHANGED <<runsPage, rnDisc, rnRunLoads, rnCreate, gamesDisciplines, gamesRuns, gamesRunsIds>>
  /\ UNCHANGED OutsideRuns

ReturnsAnyReply(ev) == ev.error = NoError

\* if (!ev.error && ev.data?.id) return ev.data
ReturnsTableRow(ev) == ev.error = NoError /\ ev.data # {}

\* catch (e) { toast; setActiveEvent(null); ... } finally { setLoading(false) }
RnCaught(st, msg) ==
  [st EXCEPT !.toastOpen = TRUE, !.toastMsg = Toast("Load Fehler: ", msg),
             !.activeEvent = {}, !.disciplines = {}, !.runs = {},
             !.loading = FALSE]

RnFinallyKeepsLoading(st) == st

\* the try block ran to its end: finally { setLoading(false) }
RnFinally(st) == [st EXCEPT !.loading = FALSE]

\* loadAll after loadActiveEvent has returned ev
LoadAllGotEvent(la, ev) ==
  IF ev = {} THEN
    \* setActiveEvent(null); setDisciplines([]); setRuns([]); return
    /\ runsPage' = RnFinally([runsPage EXCEPT !.activeEvent = {}, !.disciplines = {},
                                              !.runs = {}])
    /\ rnLoadAll' = [la EXCEPT !.pc = "done"]
    /\ UNCHANGED <<rnDisc, rnRunLoads>>
  ELSE
    \* await Promise.all([loadDisciplines(ev.id), loadRuns(ev.id)])
    /\ runsPage' = [runsPage EXCEPT !.activeEvent = ev]
    /\ rnLoadAll' = [la EXCEPT !.pc = "all", !.disc = "pending", !.runs = "pending"]
    /\ rnDisc' = [pc |-> "q1_sent", eventId |-> ev, res |-> RnNoRes]
    /\ StartLoadRuns("loadAll", ev)

\* loadActiveEvent resumes with the reply of games_events
ActiveEventResponse ==
  /\ rnLoadAll.pc = "ev_replied"
  /\ IF ReturnsTableRow(rnLoadAll.ev)
     THEN LoadAllGotEvent([rnLoadAll EXCEPT !.returned = "table", !.ev = RnNoRes],
                          rnLoadAll.ev.data)
     ELSE /\ rnLoadAll' = [rnLoadAll EXCEPT !.pc = "view_sent", !.ev = RnNoRes]
          /\ UNCHANGED <<runsPage, rnDisc, rnRunLoads>>
  /\ UNCHANGED <<rnCreate, gamesDisciplines, gamesRuns, gamesRunsIds>>
  /\ UNCHANGED OutsideRuns

\* loadActiveEvent resumes with the reply of the view:
\* if (v.error) throw v.error; return v.data ?? null
ActiveEventViewResponse ==
  /\ rnLoadAll.pc = "view_replied"
  /\ IF rnLoadAll.v.error # NoError
     THEN /\ runsPage' = RnCaught(runsPage, rnLoadAll.v.error)
          /\ rnLoadAll' = [rnLoadAll EXCEPT !.pc = "done", !.returned = "throw",
                                             !.v = RnNoRes]
          /\ UNCHANGED <<rnDisc, rnRunLoads>>
     ELSE LoadAllGotEvent(
            [rnLoadAll EXCEPT !.returned = IF rnLoadAll.v.data = {} THEN "null" ELSE "view",
                              !.v = RnNoRes],
            rnLoadAll.v.data)
  /\ UNCHANGED <<rnCreate, gamesDisciplines, gamesRuns, gamesRunsIds>>
  /\ UNCHANGED OutsideRuns

\* Promise.all([loadDisciplines, loadRuns]) when one of the two settles: the
\* first rejection rejects it, it fulfils when both have fulfilled.
AllSettled(la, which, ok) ==
  IF la.pc # "all" THEN la
  ELSE IF ~ok THEN [la EXCEPT !.pc = "done", ![which] = "rejected"]
  ELSE LET la2 == [la EXCEPT ![which] = "fulfilled"] IN
       IF la2.disc = "fulfilled" /\ la2.runs = "fulfilled"
       THEN [la2 EXCEPT !.pc = "done"] ELSE la2

\* ... and what loadAll then does to the page
AllSettledPage(la, st, which, ok, msg) ==
  IF la.pc # "all" THEN st
  ELSE IF ~ok THEN RnCaught(st, msg)
  ELSE IF AllSettled(la, which, ok).pc = "done" THEN RnFinally(st)
  ELSE st

\* games_disciplines .eq("event_id", eventId), with and without sort_order
ServerDisciplines ==
  /\ rnDisc.pc \in {"q1_sent", "q2_sent"}
  /\ \E reply \in {[error |-> e, data |-> {}] : e \in RnErrors}
                    \cup {[error |-> NoError,
                           data |-> {d \in gamesDisciplines : {d.event_id} = rnDisc.eventId}]} :
       rnDisc' = [rnDisc EXCEPT !.pc = IF rnDisc.pc = "q1_sent" THEN "q1_replied"
                                       ELSE "q2_replied",
                                !.res = reply]
  /\ UNCHANGED <<runsPage, rnLoadAll, rnRunLoads, rnCreate, gamesDisciplines, gamesRuns, gamesRunsIds>>
  /\ UNCHANGED OutsideRuns

\* loadDisciplines resumes
DisciplinesResponse ==
  /\ rnDisc.pc \in {"q1_replied", "q2_replied"}
  /\ IF rnDisc.res.error = NoError THEN
       \* setDisciplines(data)
       LET st == [runsPage EXCEPT !.disciplines = rnDisc.res.data] IN
       /\ runsPage' = AllSettledPage(rnLoadAll, st, "disc", TRUE, NoError)
       /\ rnLoadAll' = AllSettled(rnLoadAll, "disc", TRUE)
       /\ rnDisc' = RnIdleDisc
     ELSE IF rnDisc.pc = "q1_replied" THEN
       \* the query without sort_order
       /\ rnDisc' = [rnDisc EXCEPT !.pc = "q2_sent", !.res = RnNoRes]
       /\ UNCHANGED <<runsPage, rnLoadAll>>
     ELSE
       \* if (q2.error) throw q2.error
       /\ runsPage' = AllSettledPage(rnLoadAll, runsPage, "disc", FALSE, rnDisc.res.error)
       /\ rnLoadAll' = AllSettled(rnLoadAll, "disc", FALSE)
       /\ rnDisc' = RnIdleDisc
  /\ UNCHANGED <<rnRunLoads, rnCreate, gamesDisciplines, gamesRuns, gamesRunsIds>>
  /\ UNCHANGED OutsideRuns

\* games_runs .eq("event_id", eventId)
ServerRuns(k) ==
  /\ k \in 1..Len(rnRunLoads)
  /\ rnRunLoads[k].pc = "sent"
  /\ \E reply \in {[error |-> e, data |-> {}] : e \in RnErrors}
                    \cup {[error |-> NoError,
                           data |-> {r \in gamesRuns : {r.event_id} = rnRunLoads[k].eventId}]} :
       rnRunLoads' = [rnRunLoads EXCEPT ![k].pc = "replied", ![k].res = reply]
  /\ UNCHANGED <<runsPage, rnLoadAll, rnDisc, rnCreate, gamesDisciplines, gamesRuns, gamesRunsIds>>
  /\ UNCHANGED OutsideRuns

\* loadRuns resumes: if (res.error) throw res.error; setRuns(r); setVmRuns(...)
RunsResponse(k) ==
  /\ k \in 1..Len(rnRunLoads)
  /\ rnRunLoads[k].pc = "replied"
  /\ rnRunLoads' = Without(rnRunLoads, k)
  /\ LET l == rnRunLoads[k]
         ok == l.res.error = NoError
         st == IF ok THEN [runsPage EXCEPT !.runs = l.res.data] ELSE runsPage
     IN IF l.owner = "loadAll"
        THEN /\ runsPage' = AllSettledPage(rnLoadAll, st, "runs", ok, l.res.error)
             /\ rnLoadAll' = AllSettled(rnLoadAll, "runs", ok)
        ELSE \* awaited last by createRun: a rejection goes unhandled
             /\ runsPage' = st
             /\ UNCHANGED rnLoadAll
  /\ UNCHANGED <<rnDisc, rnCreate, gamesDisciplines, gamesRuns, gamesRunsIds>>
  /\ UNCHANGED OutsideRuns

\* The discipline select of the create form, rendered when an active event
\* is shown: disabled={savingGlobal || !activeEvent || disciplines.length === 0}
setDisciplineId(d) ==
  /\ ~runsPage.loading /\ ~runsPage.savingGlobal
  /\ runsPage.activeEvent # {}
  /\ d \in Ids(runsPage.disciplines)
  /\ runsPage' = [runsPage EXCEPT !.disciplineId = {d}]
  /\ UNCHANGED <<rnLoadAll, rnDisc, rnRunLoads, rnCreate, gamesDisciplines, gamesRuns, gamesRunsIds>>
  /\ UNCHANGED OutsideRuns

\* !!activeEvent?.id && !!disciplineId && !loading && !savingGlobal
rnCanCreate ==
  /\ runsPage.activeEvent # {} /\ runsPage.disciplineId # {}
  /\ ~runsPage.loading /\ ~runsPage.savingGlobal

\* createRun up to its await; the button: disabled={!canCreate}
createRun ==
  /\ rnCanCreate
  /\ gamesRunsIds < MaxRuns
  /\ CanLoadRuns
  /\ runsPage' = [runsPage EXCEPT !.savingGlobal = TRUE]
  /\ rnCreate' = [pc |-> "insert_sent", eventId |-> runsPage.activeEvent,
                  disciplineId |-> runsPage.disciplineId, res |-> RnNoRes]
  /\ UNCHANGED <<rnLoadAll, rnDisc, rnRunLoads, gamesDisciplines, gamesRuns, gamesRunsIds>>
  /\ UNCHANGED OutsideRuns

\* games_runs .insert(payload)
ServerInsertRun ==
  /\ rnCreate.pc = "insert_sent"
  /\ \/ \E e \in RnErrors :
          /\ rnCreate' = [rnCreate EXCEPT !.pc = "insert_replied",
                                          !.res = [error |-> e, data |-> {}]]
          /\ UNCHANGED <<gamesRuns, gamesRunsIds>>
     \/ /\ gamesRunsIds' = gamesRunsIds + 1
        /\ gamesRuns' = gamesRuns \cup {RunRow(gamesRunsIds + 1, TheId(rnCreate.eventId),
                                               TheId(rnCreate.disciplineId))}
        /\ rnCreate' = [rnCreate EXCEPT !.pc = "insert_replied"]
  /\ UNCHANGED <<runsPage, rnLoadAll, rnDisc, rnRunLoads, gamesDisciplines>>
  /\ UNCHANGED OutsideRuns

\* createRun resumes: setSavingGlobal(false), then the error toast, or the
\* success toast, resetForm() and loadRuns(activeEvent.id)
CreateRunResponse ==
  /\ rnCreate.pc = "insert_replied"
  /\ rnCreate' = [rnCreate EXCEPT !.pc = "done"]
  /\ IF rnCreate.res.error # NoError
     THEN /\ runsPage' = [runsPage EXCEPT !.savingGlobal = FALSE, !.toastOpen = TRUE,
                            !.toastMsg = Toast("Create Fehler: ", rnCreate.res.error)]
          /\ UNCHANGED rnRunLoads
     ELSE /\ runsPage' = [runsPage EXCEPT !.savingGlobal = FALSE, !.toastOpen = TRUE,
                            !.toastMsg = Toast("Lauf angelegt.", NoError),
                            !.disciplineId = {}]
          /\ StartLoadRuns("createRun", rnCreate.eventId)
  /\ UNCHANGED <<rnLoadAll, rnDisc, gamesDisciplines, gamesRuns, gamesRunsIds>>
  /\ UNCHANGED OutsideRuns

RunsNext ==
  \/ loadAll
  \/ ServerActiveEvent
  \/ ServerActiveEventView
  \/ ActiveEventResponse
  \/ ActiveEventViewResponse
  \/ ServerDisciplines
  \/ DisciplinesResponse
  \/ \E k \in 1..MaxRunLoads : ServerRuns(k)
  \/ \E k \in 1..MaxRunLoads : RunsResponse(k)
  \/ \E d \in 1..MaxEvents : setDisciplineId(d)
  \/ createRun
  \/ ServerInsertRun
  \/ CreateRunResponse

-----------------------------------------------------------------------------
(* GamesRuns: claims.                                                      *)

\* loadActiveEvent resumes with the reply of its first or second query.
TableReplyRead == rnLoadAll.pc = "ev_replied" /\ rnLoadAll'.pc # "ev_replied"

ViewReplyRead == rnLoadAll.pc = "view_replied" /\ rnLoadAll'.pc # "view_replied"

-----------------------------------------------------------------------------
(* Failed writes on the Games pages: which text the page shows for which   *)
(* error message.                                                          *)

MsgPermission  == <<"permission", "denied", "for", "table", "games_events">>
MsgPolicyUpper == <<"Policy", "violation">>
MsgRlsWord     == <<"RLS", "check", "failed">>
MsgRowLevel    == <<"row", "level", "security", "violation">>
MsgFkPolicy    == <<"policy", "check", "violates", "foreign", "key", "constraint">>
MsgSchemaCache == <<"could", "not", "find", "the", "column", "in", "the", "schema", "cache">>
MsgSchemaPolicy == <<"could", "not", "find", "the", "policy", "in", "the", "schema", "cache">>

WriteErrors ==
  {MsgRls, MsgPermission, MsgPolicyUpper, MsgRlsWord, MsgRowLevel, MsgFk,
   MsgFkPolicy, MsgSchemaCache, MsgSchemaPolicy, MsgTimeout}

Site(page, handler) == [page |-> page, handler |-> handler]

\* The write handlers of the Games pages.  FoodCreate.tsx holds two further
\* versions of the Runs page, GamesResults.tsx a second version of the
\* Results page.
WriteSites ==
  {Site("GamesEvents", h) : h \in {"createEvent", "setActive", "deleteEvent"}}
    \cup {Site("GamesHome", "save")}
    \cup {Site(p, h) : p \in {"GamesResults", "GamesResults:947"},
                       h \in {"saveRow", "saveAllDirty"}}
    \cup {Site("GamesRuns", h) : h \in {"createRun", "deleteRun", "saveRun"}}
    \cup {Site(p, h) : p \in {"GamesTeams", "GamesDisciplines", "FoodCreate:300",
                              "FoodCreate:863"},
                       h \in {"create", "delete"}}

WritesInit ==
  /\ wrSite \in WriteSites
  /\ wrMsg \in WriteErrors
  /\ wrToast = {}

\* GamesResults.tsx, isRlsError
isRlsError(msg) ==
  LET m == toLowerCase(msg) IN
  \/ includes(m, <<"row", "level", "security">>)
  \/ includes(m, <<"rls">>)
  \/ includes(m, <<"policy">>)
  \/ includes(m, <<"permission", "denied">>)

\* FoodCreate.tsx, isRls (and isRlsError further down: the same tests)
isRls(msg) ==
  LET m == toLowerCase(msg) IN
  \/ includes(m, <<"row-level", "security">>)
  \/ includes(m, <<"rls">>)
  \/ includes(m, <<"policy">>)

\* FoodCreate.tsx, isFk
isFk(msg) ==
  LET m == toLowerCase(msg) IN
  includes(m, <<"foreign", "key">>) \/ includes(m, <<"violates", "foreign", "key">>)

\* GamesEvents: the catch blocks of createEvent, setActive, deleteEvent
EventsWriteFails ==
  /\ wrSite.page = "GamesEvents" /\ wrToast = {}
  /\ wrToast' = {CASE wrSite.handler = "createEvent" -> CreateErrorToast(wrMsg)
                   [] wrSite.handler = "setActive"   -> SetActiveErrorToast(wrMsg)
                   [] OTHER                          -> DeleteErrorToast(wrMsg)}
  /\ UNCHANGED <<wrSite, wrMsg>>
  /\ UNCHANGED OutsideWrites

\* GamesHome: save, if (res.error)
HomeWriteFails ==
  /\ wrSite.page = "GamesHome" /\ wrToast = {}
  /\ wrToast' = {SaveErrorToast(wrMsg)}
  /\ UNCHANGED <<wrSite, wrMsg>>
  /\ UNCHANGED OutsideWrites

\* GamesResults, both versions: the catch blocks of saveRow and saveAllDirty
ResultsWriteFails ==
  /\ wrSite.page \in {"GamesResults", "GamesResults:947"} /\ wrToast = {}
  /\ LET blocked == IF wrSite.page = "GamesResults" THEN isRlsError(wrMsg)
                    ELSE EvIsPolicy(wrMsg)
     IN wrToast' =
          {IF blocked
           THEN Toast("Save geblockt: RLS/Policy verhindert Write auf games_run_results.",
                      NoError)
           ELSE IF wrSite.handler = "saveRow" THEN Toast("Save Fehler: ", wrMsg)
           ELSE Toast("SaveAll Fehler: ", wrMsg)}
  /\ UNCHANGED <<wrSite, wrMsg>>
  /\ UNCHANGED OutsideWrites

\* GamesRuns: createRun, deleteRun, saveRun, if (res.error)
RunsWriteFails ==
  /\ wrSite.page = "GamesRuns" /\ wrToast = {}
  /\ wrToast' = {CASE wrSite.handler = "createRun" -> Toast("Create Fehler: ", wrMsg)
                   [] wrSite.handler = "deleteRun" -> Toast("Delete Fehler: ", wrMsg)
                   [] OTHER                        -> Toast("Update Fehler: ", wrMsg)}
  /\ UNCHANGED <<wrSite, wrMsg>>
  /\ UNCHANGED OutsideWrites

\* GamesTeams, GamesDisciplines: create and delete, if (res.error)
TeamsWriteFails ==
  /\ wrSite.page \in {"GamesTeams", "GamesDisciplines"} /\ wrToast = {}
  /\ wrToast' = {IF wrSite.handler = "create" THEN Toast("Create Fehler: ", wrMsg)
                 ELSE Toast("Delete Fehler: ", wrMsg)}
  /\ UNCHANGED <<wrSite, wrMsg>>
  /\ UNCHANGED OutsideWrites

\* The Runs page of FoodCreate.tsx:300: the catch blocks of createRun, deleteRun
SplitRunsWriteFails ==
  /\ wrSite.page = "FoodCreate:300" /\ wrToast = {}
  /\ wrToast' =
       {IF wrSite.handler = "create" THEN
          IF isRls(wrMsg) THEN Toast("Create geblockt (RLS games_runs): ", wrMsg)
          ELSE Toast("Create Fehler: ", wrMsg)
        ELSE
          IF isRls(wrMsg) THEN Toast("Delete geblockt (RLS games_runs): ", wrMsg)
          ELSE IF isFk(wrMsg)
          THEN Toast("Delete nicht moeglich: Es haengen noch Results am Lauf (FK).", NoError)
          ELSE Toast("Delete Fehler: ", wrMsg)}
  /\ UNCHANGED <<wrSite, wrMsg>>
  /\ UNCHANGED OutsideWrites

\* The Runs page of FoodCreate.tsx:863: the catch blocks of createRun, deleteRun
OtherRunsWriteFails ==
  /\ wrSite.page = "FoodCreate:863" /\ wrToast = {}
  /\ wrToast' =
       {IF wrSite.handler = "create" THEN
          IF isRls(wrMsg) THEN Toast("Create geblockt (RLS/Policy): ", wrMsg)
          ELSE Toast("Create Fehler: ", wrMsg)
        ELSE
          IF isRls(wrMsg) THEN Toast("Delete geblockt (RLS/Policy): ", wrMsg)
          ELSE IF includes(toLowerCase(wrMsg), <<"foreign", "key">>)
          THEN Toast("Delete nicht moeglich: Es haengen noch Ergebnisse an diesem Lauf (FK).",
                     NoError)
          ELSE Toast("Delete Fehler: ", wrMsg)}
  /\ UNCHANGED <<wrSite, wrMsg>>
  /\ UNCHANGED OutsideWrites

WritesNext ==
  \/ EventsWriteFails
  \/ HomeWriteFails
  \/ ResultsWriteFails
  \/ RunsWriteFails
  \/ TeamsWriteFails
  \/ SplitRunsWriteFails
  \/ OtherRunsWriteFails

-----------------------------------------------------------------------------
(* Failed writes: claims.                                                  *)

\* The message of a permission/policy denial: it contains "row-level
\* security" or "policy", in whatever case.
DenotesDenial(msg) ==
  LET m == toLowerCase(msg) IN
  includes(m, <<"row-level", "security">>) \/ includes(m, <<"policy">>)

\* The RLS/policy texts of the pages.
RlsTexts ==
  {"Create geblockt: RLS/Policy verhindert INSERT auf games_events.",
   "Aktiv setzen geblockt: RLS/Policy verhindert UPDATE auf games_events.",
   "Delete geblockt: RLS/Policy verhindert DELETE auf games_events.",
   "Save geblockt: RLS/Policy verhindert UPDATE/UPSERT.",
   "Save geblockt: RLS/Policy verhindert Write auf games_run_results.",
   "Create geblockt (RLS games_runs): ", "Delete geblockt (RLS games_runs): ",
   "Create geblockt (RLS/Policy): ", "Delete geblockt (RLS/Policy): "}

\* The pages whose write handlers look at the error message.
ClassifyingPages ==
  {"GamesEvents", "GamesHome", "GamesResults", "GamesResults:947",
   "FoodCreate:300", "FoodCreate:863"}

-----------------------------------------------------------------------------
(* The router and the auth context (App.tsx, AuthProvider.tsx).            *)

\* The <Route>s of App.tsx in their order; "/news/:uuid" stands for a URL
\* that matches the UUID pattern of the detail routes.
RouteTable == <<
  [path |-> "/login", component |-> "Login", protected |-> FALSE],
  [path |-> "/auth/callback", component |-> "AuthCallback", protected |-> FALSE],
  [path |-> "/", component |-> "Home", protected |-> TRUE],
  [path |-> "/news", component |-> "NewsList", protected |-> TRUE],
  [path |-> "/news/create", component |-> "NewsCreate", protected |-> TRUE],
  [path |-> "/news/:uuid", component |-> "NewsDetail", protected |-> TRUE],
  [path |-> "/program", component |-> "ProgramList", protected |-> TRUE],
  [path |-> "/program/create", component |-> "ProgramCreate", protected |-> TRUE],
  [path |-> "/program/:uuid", component |-> "ProgramDetail", protected |-> TRUE],
  [path |-> "/food", component |-> "FoodList", protected |-> TRUE],
  [path |-> "/food/create", component |-> "FoodCreate", protected |-> TRUE],
  [path |-> "/food/:uuid", component |-> "FoodDetail", protected |-> TRUE],
  [path |-> "/countdown", component |-> "Countdown", protected |-> TRUE],
  [path |-> "/sponsors", component |-> "SponsorsList", protected |-> TRUE],
  [path |-> "/sponsors/create", component |-> "SponsorsCreate", protected |-> TRUE],
  [path |-> "/sponsors/:uuid", component |-> "SponsorsDetail", protected |-> TRUE],
  [path |-> "/games", component |-> "GamesHome", protected |-> TRUE],
  [path |-> "/games/events", component |-> "GamesEvents", protected |-> TRUE],
  [path |-> "/games/teams", component |-> "GamesTeams", protected |-> TRUE],
  [path |-> "/games/disciplines", component |-> "GamesDisciplines", protected |-> TRUE],
  [path |-> "/games/runs", component |-> "GamesRuns", protected |-> TRUE],
  [path |-> "/games/results", component |-> "GamesResults", protected |-> TRUE]>>

\* What can be typed into the address bar: the routes' URLs, a detail URL
\* whose id is no UUID, and a path no route has.
Urls == {RouteTable[i].path : i \in DOMAIN RouteTable} \cup {"/news/abc", "/nowhere"}

Sessions == {"none", "session1", "session2"}

\* What a route element renders to: a page on the screen or a redirect.
Shows(component) == [redirect |-> FALSE, to |-> "", screen |-> component]

Redirect(to) == [redirect |-> TRUE, to |-> to, screen |-> ""]

RendersChildren(loading_, session_, children) == Shows(children)

\* ProtectedRoute
ProtectedRoute(loading_, session_, children) ==
  IF loading_ THEN Shows("IonSpinner")
  ELSE IF session_ = "none" THEN Redirect("/login")
  ELSE Shows(children)

\* The outlet renders the first route whose path matches; the last route has
\* no path and matches everything.
RouteElement(url, loading_, session_) ==
  IF \E i \in DOMAIN RouteTable : RouteTable[i].path = url
  THEN LET i == CHOOSE i \in DOMAIN RouteTable :
                  /\ RouteTable[i].path = url
                  /\ \A j \in 1..(i - 1) : RouteTable[j].path # url
           r == RouteTable[i]
       IN IF r.protected THEN ProtectedRoute(loading_, session_, r.component)
          ELSE Shows(r.component)
  ELSE Redirect("/")

\* A <Redirect> replaces the location when it mounts; the outlet then
\* renders the new location.
RECURSIVE LandsAt(_, _, _)
LandsAt(url, loading_, session_) ==
  LET e == RouteElement(url, loading_, session_) IN
  IF e.redirect THEN LandsAt(e.to, loading_, session_) ELSE url

ScreenAt(url, loading_, session_) ==
  RouteElement(LandsAt(url, loading_, session_), loading_, session_).screen

\* The app re-renders with the auth context's new values.
Rerender(url, loading_, session_) ==
  /\ location' = LandsAt(url, loading_, session_)
  /\ screen' = ScreenAt(url, loading_, session_)

AuthInit ==
  /\ authLoading = TRUE
  /\ authSession = "none"
  /\ supabaseSession \in Sessions
  \* the effect of AuthProvider: getSession() is under way
  /\ getSession = [pc |-> "sent", data |-> "none"]
  /\ authAlive = TRUE
  /\ requested \in Urls
  /\ location = LandsAt(requested, TRUE, "none")
  /\ screen = ScreenAt(requested, TRUE, "none")

\* The auth context once getSession has answered with a session, the router
\* at url.
AuthSignedInAt(url) ==
  /\ authLoading = FALSE
  /\ authSession = "session1"
  /\ supabaseSession = "session1"
  /\ getSession = [pc |-> "done", data |-> "session1"]
  /\ authAlive = TRUE
  /\ requested = url
  /\ location = LandsAt(url, FALSE, "session1")
  /\ screen = ScreenAt(url, FALSE, "session1")

\* supabase.auth.getSession() reads the stored session
GetSessionReads ==
  /\ getSession.pc = "sent"
  /\ getSession' = [pc |-> "read", data |-> supabaseSession]
  /\ UNCHANGED <<authLoading, authSession, supabaseSession, authAlive, requested,
                 location, screen>>
  /\ UNCHANGED OutsideAuth

\* const { data } = await supabase.auth.getSession(); if (!alive) return;
\* setSession(data.session ?? null); setLoading(false)
GetSessionResolves ==
  /\ getSession.pc = "read"
  /\ getSession' = [getSession EXCEPT !.pc = "done"]
  /\ IF authAlive
     THEN /\ authSession' = getSession.data
          /\ authLoading' = FALSE
          /\ Rerender(location, FALSE, getSession.data)
     ELSE UNCHANGED <<authSession, authLoading, location, screen>>
  /\ UNCHANGED <<supabaseSession, authAlive, requested>>
  /\ UNCHANGED OutsideAuth

\* The session changes at the auth provider (sign-in, sign-out, refresh) and
\* the onAuthStateChange callback runs: setSession(newSession ?? null);
\* setLoading(false)
AuthStateChange(newSession) ==
  /\ authAlive
  /\ newSession # supabaseSession
  /\ supabaseSession' = newSession
  /\ authSession' = newSession
  /\ authLoading' = FALSE
  /\ Rerender(location, FALSE, newSession)
  /\ UNCHANGED <<getSession, authAlive, requested>>
  /\ UNCHANGED OutsideAuth

\* The user opens a URL or follows a link.
Navigate(url) ==
  /\ authAlive
  /\ requested' = url
  /\ Rerender(url, authLoading, authSession)
  /\ UNCHANGED <<authLoading, authSession, supabaseSession, getSession, authAlive>>
  /\ UNCHANGED OutsideAuth

\* The app is closed: return () => { alive = false; unsubscribe() }
AuthUnmount ==
  /\ authAlive
  /\ authAlive' = FALSE
  /\ screen' = ""
  /\ UNCHANGED <<authLoading, authSession, supabaseSession, getSession, requested,
                 location>>
  /\ UNCHANGED OutsideAuth

AuthNext ==
  \/ GetSessionReads
  \/ GetSessionResolves
  \/ \E s \in Sessions : AuthStateChange(s)
  \/ \E url \in Urls : Navigate(url)
  \/ AuthUnmount

-----------------------------------------------------------------------------
(* Router and auth context: claims.                                        *)

PublicUrls == {"/login", "/auth/callback"}

\* The pages of the protected routes.
ProtectedPages ==
  {RouteTable[i].component : i \in {j \in DOMAIN RouteTable : RouteTable[j].path \notin PublicUrls}}

\* C7: a protected page is on the screen only if auth loading has finished
\* and a session exists; when loading has finished and there is no session,
\* the location is /login unless the user asked for a public URL.
C7_ProtectedNeedsSession ==
  /\ screen \in ProtectedPages => (~authLoading /\ authSession # "none")
  /\ (authAlive /\ ~authLoading /\ authSession = "none" /\ requested \notin PublicUrls)
       => (location = "/login" /\ screen = "Login")

\* Without a session the user asked for /games/events and was sent to /login.
C7_Witness ==
  /\ requested = "/games/events"
  /\ ~authLoading /\ authSession = "none"
  /\ location = "/login" /\ screen = "Login"

-----------------------------------------------------------------------------
(* The list pages with live refresh (NewsList.tsx, FoodList.tsx).          *)

MaxListRows  == 2
MaxListLoads == 3
MaxNotes     == 2
MaxMounts    == 2

ListTables == {"news_posts", "menu_items"}

ListRowSets == SUBSET (1..MaxListRows)

\* A select under way: sent, then replied with data or an error.
ListLoad(inst) == [inst |-> inst, pc |-> "sent", data |-> {}, error |-> NoError]

ChannelKept == "joined"

\* supabase.removeChannel(channel) leaves no channel of the page behind
ChannelRemoved == "none"

\* useState(true), useState([]), useState(null)
ListFresh == [loading |-> TRUE, items |-> {}, err |-> NoError]

\* What has happened to the page's notifications (history, read by the
\* claims only): one has reloaded the list, one was dropped, a change of
\* the table was not notified because no subscription was joined.
ListSeenNothing == [reloaded |-> FALSE, dropped |-> FALSE, missed |-> FALSE]

ListInit ==
  /\ lsTable \in ListTables
  /\ lsRows \in ListRowSets
  \* the effect has run: load() is under way and the channel is joining
  /\ lsMounted = TRUE
  /\ lsInst = 1
  /\ lsPage = ListFresh
  /\ lsLoads = <<ListLoad(1)>>
  /\ lsChannel = "joining"
  /\ lsNotes = <<>>
  /\ lsSeen = ListSeenNothing

\* load: setLoading(true); setErr(null); the select is sent
load ==
  /\ lsPage' = [lsPage EXCEPT !.loading = TRUE, !.err = NoError]
  /\ lsLoads' = Append(lsLoads, ListLoad(lsInst))

\* The server accepts the subscription of .subscribe()
ListChannelJoins ==
  /\ lsChannel = "joining"
  /\ lsChannel' = "joined"
  /\ UNCHANGED <<lsTable, lsRows, lsMounted, lsInst, lsPage, lsLoads, lsNotes, lsSeen>>
  /\ UNCHANGED OutsideList

\* A row of the table is inserted or deleted; a joined subscription is sent
\* a change notification.
ListTableChanges(id) ==
  /\ Len(lsNotes) < MaxNotes
  /\ Len(lsNotes) + Len(lsLoads) < MaxListLoads
  /\ lsRows' = IF id \in lsRows THEN lsRows \ {id} ELSE lsRows \cup {id}
  /\ lsNotes' = IF lsChannel = "joined" THEN Append(lsNotes, lsInst) ELSE lsNotes
  /\ lsSeen' = IF lsChannel = "joined" THEN lsSeen ELSE [lsSeen EXCEPT !.missed = TRUE]
  /\ UNCHANGED <<lsTable, lsMounted, lsInst, lsPage, lsLoads, lsChannel>>
  /\ UNCHANGED OutsideList

\* A change notification arrives: the callback of the subscription it was
\* sent to runs, () => load(), if the client still has that channel.
ListNotification(k) ==
  /\ k \in DOMAIN lsNotes
  /\ lsNotes' = Without(lsNotes, k)
  /\ IF lsChannel = "joined" /\ lsNotes[k] = lsInst
     THEN /\ load
          /\ lsSeen' = [lsSeen EXCEPT !.reloaded = TRUE]
     ELSE /\ UNCHANGED <<lsPage, lsLoads>>
          /\ lsSeen' = [lsSeen EXCEPT !.dropped = TRUE]
  /\ UNCHANGED <<lsTable, lsRows, lsMounted, lsInst, lsChannel>>
  /\ UNCHANGED OutsideList

\* The server runs the select of a load.
ServerListLoad(k) ==
  /\ k \in DOMAIN lsLoads
  /\ lsLoads[k].pc = "sent"
  /\ \E e \in {NoError, MsgTimeout} :
       lsLoads' = [lsLoads EXCEPT ![k] =
                     [@ EXCEPT !.pc = "replied",
                               !.data = IF e = NoError THEN lsRows ELSE {},
                               !.error = e]]
  /\ UNCHANGED <<lsTable, lsRows, lsMounted, lsInst, lsPage, lsChannel, lsNotes, lsSeen>>
  /\ UNCHANGED OutsideList

\* load after the await; the setters of a component that is no longer
\* mounted change nothing.
ListLoadResponse(k) ==
  /\ k \in DOMAIN lsLoads
  /\ lsLoads[k].pc = "replied"
  /\ lsLoads' = Without(lsLoads, k)
  /\ IF lsMounted /\ lsLoads[k].inst = lsInst
     THEN IF lsLoads[k].error # NoError
          THEN lsPage' = [loading |-> FALSE, items |-> {}, err |-> lsLoads[k].error]
          ELSE lsPage' = [lsPage EXCEPT !.loading = FALSE, !.items = lsLoads[k].data]
     ELSE UNCHANGED lsPage
  /\ UNCHANGED <<lsTable, lsRows, lsMounted, lsInst, lsChannel, lsNotes, lsSeen>>
  /\ UNCHANGED OutsideList

\* The page is left: return () => { supabase.removeChannel(channel) }
ListUnmount ==
  /\ lsMounted
  /\ lsMounted' = FALSE
  /\ lsChannel' = ChannelRemoved
  /\ lsPage' = ListFresh
  /\ UNCHANGED <<lsTable, lsRows, lsInst, lsLoads, lsNotes, lsSeen>>
  /\ UNCHANGED OutsideList

\* The page is opened again: a new component, whose effect runs load() and
\* subscribes a new channel.
ListMount ==
  /\ ~lsMounted
  /\ lsInst < MaxMounts
  /\ Len(lsNotes) + Len(lsLoads) < MaxListLoads
  /\ lsMounted' = TRUE
  /\ lsInst' = lsInst + 1
  /\ lsPage' = ListFresh
  /\ lsLoads' = Append(lsLoads, ListLoad(lsInst + 1))
  /\ lsChannel' = "joining"
  /\ lsSeen' = ListSeenNothing
  /\ UNCHANGED <<lsTable, lsRows, lsNotes>>
  /\ UNCHANGED OutsideList

ListNext ==
  \/ ListChannelJoins
  \/ \E id \in 1..MaxListRows : ListTableChanges(id)
  \/ \E k \in 1..MaxNotes : ListNotification(k)
  \/ \E k \in 1..MaxListLoads : ServerListLoad(k)
  \/ \E k \in 1..MaxListLoads : ListLoadResponse(k)
  \/ ListUnmount
  \/ ListMount

-----------------------------------------------------------------------------
(* List pages: claims.                                                     *)

\* A load of the page's component has been started in this step.
ListLoadStarted ==
  /\ Len(lsLoads') = Len(lsLoads) + 1
  /\ lsLoads'[Len(lsLoads')] = ListLoad(lsInst)
  /\ lsPage'.loading

\* A notification sent to the mounted page's subscription arrives.
ListNotified ==
  \E k \in DOMAIN lsNotes :
    /\ lsMounted /\ lsMounted'
    /\ lsNotes[k] = lsInst
    /\ lsNotes' = Without(lsNotes, k)

\* C8: while a list page is mounted every change notification for its table
\* starts a reload; once the page is unmounted its channel is removed and no
\* reload is started.
C8_ReloadWhileMounted ==
  /\ [](~lsMounted => lsChannel = "none")
  /\ [][ListNotified => ListLoadStarted]_vars
  /\ [][(~lsMounted /\ ~lsMounted') => Len(lsLoads') <= Len(lsLoads)]_vars

\* A notification has reloaded the list while the page was mounted, and one
\* that arrived after the page was left was dropped.
C8_Witness ==
  /\ ~lsMounted
  /\ lsChannel = "none"
  /\ lsSeen.reloaded
  /\ lsSeen.dropped

-----------------------------------------------------------------------------
(* Flags and requests of the pages: claims.                                *)

\* No request of the GamesHome page is under way.
HomeRequestsDone ==
  /\ \A k \in 1..MaxSaves : saves[k].pc \in {"none", "done"}
  /\ \A l \in 0..MaxSaves : loads[l].pc \in {"none", "done"}

\* No request of the GamesRuns page is under way.
RunsRequestsDone ==
  /\ rnLoadAll.pc \in {"none", "done"}
  /\ rnDisc.pc = "none"
  /\ rnRunLoads = <<>>
  /\ rnCreate.pc \in {"none", "done"}

\* C9: once every request a page has started has been answered, with data
\* or with an error, none of the page's loading and saving flags is true.
C9_FlagsClearedWhenDone ==
  /\ (screen = "GamesHome" /\ HomeRequestsDone) => (~loading /\ ~saving)
  /\ (screen = "GamesRuns" /\ RunsRequestsDone)
       => (~runsPage.loading /\ ~runsPage.savingGlobal)

\* On the Runs page an insert of createRun has failed and a later loadAll
\* has ended in its catch block; nothing is under way and no flag is set.
C9_Witness ==
  /\ screen = "GamesRuns"
  /\ RunsRequestsDone
  /\ rnCreate.pc = "done" /\ rnCreate.res.error # NoError
  /\ rnLoadAll.pc = "done" /\ "rejected" \in {rnLoadAll.disc, rnLoadAll.runs}
  /\ ~runsPage.loading /\ ~runsPage.savingGlobal

-----------------------------------------------------------------------------
(* The create forms (NewsCreate.tsx, FoodCreate.tsx, ProgramCreate in      *)
(* part_008).                                                              *)

MaxPresses == 2
MaxClock   == 2

FormKinds == {"NewsCreate", "FoodCreate", "ProgramCreate", "SponsorsCreate"}

CreatePath(kind) ==
  CASE kind = "NewsCreate" -> "/news/create"
    [] kind = "FoodCreate" -> "/food/create"
    [] kind = "ProgramCreate" -> "/program/create"
    [] kind = "SponsorsCreate" -> "/sponsors/create"

\* history.replace('/news'), '/food', '/program'
ListPath(kind) ==
  CASE kind = "NewsCreate" -> "/news"
    [] kind = "FoodCreate" -> "/food"
    [] kind = "ProgramCreate" -> "/program"
    [] kind = "SponsorsCreate" -> "/sponsors"

\* A date-time text: the empty string, or an ISO text, which is in UTC
\* ("...Z", from toISOString) or in local time (from IonDatetime).
EmptyTime == [empty |-> TRUE, instant |-> 0, zone |-> "-"]

Iso(n, zone) == [empty |-> FALSE, instant |-> n, zone |-> zone]

\* new Date(text).getTime() of an ISO text
getTime(text) == text.instant

\* new Date() when the form is mounted
Now == 1

\* What IonDatetime may hand to onIonChange as a string.
PickerTexts == {EmptyTime} \cup {Iso(n, "local") : n \in 0..MaxClock}

\* What is typed into the text inputs.
TypedTexts ==
  { <<>>,
    <<"a", "b">>,
    <<" ", "a", "b", " ">>,
    <<"a", "b", "c">>,
    <<" ", "a", "b", "c", "d", " ">>,
    <<"a", "b", "c", "d", "e">> }

InfinityText == <<"I", "n", "f", "i", "n", "i", "t", "y">>

PriceTexts ==
  { <<>>, <<"0">>, <<"3", ".", "0", "0">>, <<"3", ",", "5", "0">>,
    <<"-", "1">>, <<"a">>, InfinityText }

SortTexts == { <<>>, <<"1", "0">>, <<"a">> }

\* What is typed into the URL inputs: a scheme and the rest, or no URL.
UrlTexts == { <<>>, <<"https:", "//x.de">>, <<"ftp:", "//x.de">> }

\* SponsorsCreate.tsx, isValidUrl: new URL(s) parses a text with a scheme;
\* u.protocol === 'http:' || u.protocol === 'https:'
isValidUrl(s) == Len(s) = 2 /\ s[1] \in {"http:", "https:"}

Infinity == [finite |-> FALSE, mant |-> 1, scale |-> 0]

\* Number(text) for the texts of the price and sort fields: a sign and
\* "Infinity" on top of the unsigned decimals
NumberSigned(text) ==
  LET t == trim(text) IN
  IF t = InfinityText THEN Infinity
  ELSE IF t # <<>> /\ Head(t) = "-" /\ Tail(t) # <<>> /\ Head(Tail(t)) # " "
  THEN LET n == Number(Tail(t)) IN IF n.finite THEN Num(0 - n.mant, n.scale) ELSE NaN
  ELSE Number(t)

\* `${text}` is null
NoMessage == <<>>

NoPayload == [table |-> "-"]

FormIdleSave == [n |-> 0, pc |-> "none", payload |-> NoPayload, error |-> NoMessage,
                 code |-> ""]

FormErrors == {[code |-> "42501", message |-> MsgRls],
               [code |-> "57014", message |-> MsgTimeout]}

FormInit ==
  /\ fmKind \in FormKinds
  /\ fmFields = [title |-> <<>>, body |-> <<>>, publishedAt |-> Iso(Now, "Z"),
                 name |-> <<>>, price |-> <<"3", ".", "0", "0">>,
                 sortOrder |-> <<"1", "0">>,
                 startTime |-> Iso(Now, "Z"), endTime |-> Iso(Now + 1, "Z"),
                 website |-> <<>>, logoUrl |-> <<>>]
  /\ fmBusy = FALSE
  /\ fmErr = NoMessage
  /\ fmSave = FormIdleSave
  /\ fmRows = {}
  /\ fmPath = CreatePath(fmKind)

\* The form is on the screen and its inputs are enabled: disabled={busy}
FormEnabled == fmPath = CreatePath(fmKind) /\ ~fmBusy

\* The inputs of SponsorsCreate carry no disabled attribute.
FormInputsEnabled ==
  fmPath = CreatePath(fmKind) /\ (fmKind = "SponsorsCreate" \/ ~fmBusy)

FormSet(field, v) ==
  /\ FormInputsEnabled
  /\ fmFields' = [fmFields EXCEPT ![field] = v]
  /\ UNCHANGED <<fmKind, fmBusy, fmErr, fmSave, fmRows, fmPath>>
  /\ UNCHANGED OutsideForm

\* onIonChange={(e) => setTitle(e.detail.value ?? '')}
setTitle(v) == fmKind \in {"NewsCreate", "ProgramCreate"} /\ FormSet("title", v)

setBody(v) == fmKind = "NewsCreate" /\ FormSet("body", v)

setName(v) == fmKind \in {"FoodCreate", "SponsorsCreate"} /\ FormSet("name", v)

setWebsite(v) == fmKind = "SponsorsCreate" /\ FormSet("website", v)

setLogoUrl(v) == fmKind = "SponsorsCreate" /\ FormSet("logoUrl", v)

setPrice(v) == fmKind = "FoodCreate" /\ FormSet("price", v)

setSortOrder(v) == fmKind \in {"FoodCreate", "SponsorsCreate"} /\ FormSet("sortOrder", v)

\* if (typeof v === 'string' && v) setPublishedAt(v)
setPublishedAt(v) ==
  /\ fmKind = "NewsCreate"
  /\ FormSet("publishedAt", IF ~v.empty THEN v ELSE fmFields.publishedAt)

\* if (typeof v === 'string' && v) setStartTime(v)
setStartTime(v) ==
  /\ fmKind = "ProgramCreate"
  /\ FormSet("startTime", IF ~v.empty THEN v ELSE fmFields.startTime)

\* if (typeof v === 'string') setEndTime(v)
setEndTime(v) == fmKind = "ProgramCreate" /\ FormSet("endTime", v)

\* NewsCreate.tsx, validate (the messages with their umlauts written out)
validateNews(f) ==
  IF Len(trim(f.title)) < 3
  THEN <<"Bitte eine Ueberschrift mit mindestens 3 Zeichen eingeben.">>
  ELSE IF Len(trim(f.body)) < 5
  THEN <<"Bitte einen Text mit mindestens 5 Zeichen eingeben.">>
  ELSE IF f.publishedAt.empty
  THEN <<"Bitte einen Zeitpunkt fuer Sichtbar ab auswaehlen.">>
  ELSE NoMessage

\* FoodCreate.tsx, validate
validateFood(f) ==
  LET p == NumberSigned(replace(trim(f.price), ",", "."))
      so == IF trim(f.sortOrder) # <<>> THEN NumberSigned(trim(f.sortOrder)) ELSE Num(10, 0)
  IN IF Len(trim(f.name)) < 2
     THEN <<"Bitte einen Namen eingeben (mind. 2 Zeichen).">>
     ELSE IF ~p.finite \/ p.mant <= 0
     THEN <<"Bitte einen gueltigen Preis eingeben (z.B. 3,50).">>
     ELSE IF ~so.finite
     THEN <<"Sortierung muss eine Zahl sein.">>
     ELSE NoMessage

\* part_008, validate
validateProgram(f) ==
  IF Len(trim(f.title)) < 3
  THEN <<"Bitte einen Titel mit mindestens 3 Zeichen eingeben.">>
  ELSE IF f.startTime.empty
  THEN <<"Bitte Startzeit auswaehlen.">>
  ELSE IF ~f.endTime.empty /\ getTime(f.endTime) < getTime(f.startTime)
  THEN <<"Ende darf nicht vor Start liegen.">>
  ELSE NoMessage

\* SponsorsCreate.tsx, the checks at the head of save
validateSponsors(f) ==
  LET w == trim(f.website)
      l == trim(f.logoUrl)
  IN IF Len(trim(f.name)) < 2 THEN <<"Name ist zu kurz.">>
     ELSE IF w # <<>> /\ ~isValidUrl(w) THEN <<"Website-URL ist ungueltig.">>
     ELSE IF l # <<>> /\ ~isValidUrl(l) THEN <<"Logo-URL ist ungueltig.">>
     ELSE IF trim(f.sortOrder) # <<>> /\ NumberSigned(f.sortOrder) = NaN
     THEN <<"Sortierung muss eine Zahl sein.">>
     ELSE NoMessage

\* SponsorsCreate.tsx, canSave: the save button is disabled={!canSave}
canSave ==
  /\ Len(trim(fmFields.name)) >= 2
  /\ trim(fmFields.website) # <<>> => isValidUrl(trim(fmFields.website))
  /\ trim(fmFields.logoUrl) # <<>> => isValidUrl(trim(fmFields.logoUrl))
  /\ ~fmBusy

validateNothing(kind, f) == NoMessage

validate(kind, f) ==
  CASE kind = "NewsCreate" -> validateNews(f)
    [] kind = "FoodCreate" -> validateFood(f)
    [] kind = "ProgramCreate" -> validateProgram(f)
    [] kind = "SponsorsCreate" -> validateSponsors(f)

\* The row handed to insert([...]).
FormPayload(kind, f) ==
  CASE kind = "NewsCreate" ->
         [table |-> "news_posts", title |-> trim(f.title), body |-> trim(f.body),
          published_at |-> f.publishedAt]
    [] kind = "FoodCreate" ->
         [table |-> "menu_items", name |-> trim(f.name),
          price |-> NumberSigned(replace(trim(f.price), ",", ".")),
          sort_order |-> IF trim(f.sortOrder) # <<>>
                         THEN NumberSigned(trim(f.sortOrder)) ELSE Num(10, 0)]
    [] kind = "ProgramCreate" ->
         [table |-> "program_items", title |-> trim(f.title),
          start_time |-> f.startTime, end_time |-> f.endTime]
    [] kind = "SponsorsCreate" ->
         [table |-> "sponsors", name |-> trim(f.name), website |-> trim(f.website),
          logo_url |-> trim(f.logoUrl),
          sort_order |-> IF trim(f.sortOrder) # <<>> THEN NumberSigned(f.sortOrder)
                         ELSE NaN]

\* save up to its await: setErr(null); const v = validate();
\* if (v) { setErr(v); return }  setBusy(true); insert
save ==
  LET v == validate(fmKind, fmFields) IN
  /\ FormEnabled
  /\ fmKind = "SponsorsCreate" => canSave
  /\ fmSave.n < MaxPresses
  /\ IF v # NoMessage
     THEN /\ fmErr' = v
          /\ fmSave' = [FormIdleSave EXCEPT !.n = fmSave.n + 1, !.pc = "rejected"]
          /\ UNCHANGED fmBusy
     ELSE /\ fmErr' = NoMessage
          /\ fmBusy' = TRUE
          /\ fmSave' = [FormIdleSave EXCEPT !.n = fmSave.n + 1, !.pc = "insert_sent",
                                            !.payload = FormPayload(fmKind, fmFields)]
  /\ UNCHANGED <<fmKind, fmFields, fmRows, fmPath>>
  /\ UNCHANGED OutsideForm

\* The platform executes the insert.
ServerFormInsert ==
  /\ fmSave.pc = "insert_sent"
  /\ \/ /\ fmRows' = fmRows \cup {fmSave.payload}
        /\ fmSave' = [fmSave EXCEPT !.pc = "insert_replied"]
     \/ \E e \in FormErrors :
          /\ fmSave' = [fmSave EXCEPT !.pc = "insert_replied", !.error = e.message,
                                      !.code = e.code]
          /\ UNCHANGED fmRows
  /\ UNCHANGED <<fmKind, fmFields, fmBusy, fmErr, fmPath>>
  /\ UNCHANGED OutsideForm

\* The hint the form appends to error.message.
FormHint(kind, code, message) ==
  LET lower == toLowerCase(message) IN
  CASE kind = "NewsCreate" ->
         IF \/ code = "42501"
            \/ includes(lower, <<"permission", "denied">>)
            \/ includes(lower, <<"row", "level", "security">>)
         THEN <<"Hinweis: INSERT ist durch RLS/Policy nicht erlaubt.">>
         ELSE <<>>
    [] kind = "FoodCreate" ->
         IF includes(lower, <<"row-level", "security">>)
         THEN <<"Hinweis: RLS/Policy blockt INSERT.">>
         ELSE <<>>
    [] kind = "ProgramCreate" -> <<>>
    [] kind = "SponsorsCreate" -> <<>>

InsertNeverFailed(call) == FALSE

\* if (error) { setErr(...); return }
InsertFailed(call) == call.error # NoMessage

\* save resumes: the error is shown, or the list page replaces the form;
\* finally { setBusy(false) }.  The setters of a form that has been left
\* change nothing.
FormSaveResponse ==
  /\ fmSave.pc = "insert_replied"
  /\ fmSave' = [fmSave EXCEPT !.pc = "done"]
  /\ fmBusy' = FALSE
  /\ IF InsertFailed(fmSave)
     THEN /\ fmErr' = IF fmPath = CreatePath(fmKind)
                      THEN fmSave.error \o FormHint(fmKind, fmSave.code, fmSave.error)
                      ELSE fmErr
          /\ UNCHANGED fmPath
     ELSE /\ fmPath' = ListPath(fmKind)
          /\ UNCHANGED fmErr
  /\ UNCHANGED <<fmKind, fmFields, fmRows>>
  /\ UNCHANGED OutsideForm

\* <IonBackButton defaultHref="/news" />, which no page disables
FormLeave ==
  /\ fmPath = CreatePath(fmKind)
  /\ fmPath' = ListPath(fmKind)
  /\ UNCHANGED <<fmKind, fmFields, fmBusy, fmErr, fmSave, fmRows>>
  /\ UNCHANGED OutsideForm

FormNext ==
  \/ \E v \in TypedTexts : setTitle(v)
  \/ \E v \in TypedTexts : setBody(v)
  \/ \E v \in TypedTexts : setName(v)
  \/ \E v \in PriceTexts : setPrice(v)
  \/ \E v \in SortTexts : setSortOrder(v)
  \/ \E v \in PickerTexts : setPublishedAt(v)
  \/ \E v \in PickerTexts : setStartTime(v)
  \/ \E v \in PickerTexts : setEndTime(v)
  \/ \E v \in UrlTexts : setWebsite(v)
  \/ \E v \in UrlTexts : setLogoUrl(v)
  \/ FormLeave
  \/ save
  \/ ServerFormInsert
  \/ FormSaveResponse

-----------------------------------------------------------------------------
(* Create forms: claims.                                                   *)

\* What the forms require of the values they would insert.
NewsRequired(f) ==
  /\ Len(trim(f.title)) >= 3
  /\ Len(trim(f.body)) >= 5
  /\ ~f.publishedAt.empty

FoodRequired(f) ==
  LET p == NumberSigned(replace(trim(f.price), ",", ".")) IN
  /\ Len(trim(f.name)) >= 2
  /\ p.finite /\ p.mant > 0

\* an end time, when there is one, is not before the start
ProgramRequired(f) ==
  /\ Len(trim(f.title)) >= 3
  /\ ~f.startTime.empty
  /\ f.endTime.empty \/ getTime(f.endTime) >= getTime(f.startTime)

FormRequired ==
  CASE fmKind = "NewsCreate" -> NewsRequired(fmFields)
    [] fmKind = "FoodCreate" -> FoodRequired(fmFields)
    [] fmKind = "ProgramCreate" -> ProgramRequired(fmFields)
    [] OTHER -> TRUE

ValidationMessages ==
  { <<"Bitte eine Ueberschrift mit mindestens 3 Zeichen eingeben.">>,
    <<"Bitte einen Text mit mindestens 5 Zeichen eingeben.">>,
    <<"Bitte einen Zeitpunkt fuer Sichtbar ab auswaehlen.">>,
    <<"Bitte einen Namen eingeben (mind. 2 Zeichen).">>,
    <<"Bitte einen gueltigen Preis eingeben (z.B. 3,50).">>,
    <<"Sortierung muss eine Zahl sein.">>,
    <<"Bitte einen Titel mit mindestens 3 Zeichen eingeben.">>,
    <<"Bitte Startzeit auswaehlen.">>,
    <<"Ende darf nicht vor Start liegen.">> }

\* The save button has been pressed in this step.
SavePressed == fmSave'.n = fmSave.n + 1

\* C10: when save is pressed on a form whose values do not meet what the
\* form requires (News: title of 3, body of 5 characters, a publish time;
\* Food: name of 2 characters, a finite price above 0; Program: title of 3
\* characters, a start time, no end time before the start), no insert is
\* sent and a validation message is shown; an insert is sent only by a save
\* whose values meet the requirements.
C10_NoInsertWhenInvalid ==
  /\ [][(SavePressed /\ ~FormRequired)
          => /\ fmSave'.pc = "rejected"
             /\ fmErr' \in ValidationMessages
             /\ ~fmBusy'
             /\ fmRows' = fmRows]_vars
  /\ [][(fmSave'.pc = "insert_sent" /\ fmSave.pc # "insert_sent")
          => (SavePressed /\ FormRequired)]_vars

\* The Program form was saved with an end time before the start: the message
\* is shown and nothing was inserted.
C10_Witness ==
  /\ fmKind = "ProgramCreate"
  /\ Len(trim(fmFields.title)) >= 3
  /\ getTime(fmFields.endTime) < getTime(fmFields.startTime)
  /\ fmSave.pc = "rejected"
  /\ fmErr = <<"Ende darf nicht vor Start liegen.">>
  /\ fmRows = {}

-----------------------------------------------------------------------------
(* Create forms: navigation after save.                                    *)

\* save resumes with the reply of its insert in this step.
FormSaveResumed == fmSave.pc = "insert_replied" /\ fmSave'.pc = "done"

\* C11: save replaces the form by the list route exactly when its insert
\* succeeded; after a failed insert the form stays, showing the error
\* message.
C11_NavigatesIffInserted ==
  /\ [][(FormSaveResumed /\ fmPath = CreatePath(fmKind))
          => IF fmSave.error = NoMessage
             THEN /\ fmPath' = ListPath(fmKind)
                  /\ fmSave.payload \in fmRows
             ELSE /\ fmPath' = CreatePath(fmKind)
                  /\ Len(fmErr') >= Len(fmSave.error)
                  /\ SubSeq(fmErr', 1, Len(fmSave.error)) = fmSave.error]_vars
  /\ [][(fmPath' # fmPath /\ fmSave' # fmSave)
          => (FormSaveResumed /\ fmSave.error = NoMessage)]_vars

\* The insert of the Sponsors form was refused: the form is still there and
\* shows the message.
C11_Witness ==
  /\ fmKind = "SponsorsCreate"
  /\ fmSave.pc = "done" /\ fmSave.error = MsgRls
  /\ fmPath = "/sponsors/create"
  /\ fmErr = MsgRls
  /\ fmRows = {}

-----------------------------------------------------------------------------
(* The Countdown page (part_009) and its table event_start.                *)

MaxStartRows == 2

\* string | null as a set of at most one value
CdNull == {}

CdErrors == {MsgTimeout}

CdNoRes == [error |-> NoError, data |-> CdNull]

CdIdle == [pc |-> "none", op |-> "-", rowId |-> CdNull, startIso |-> CdNull,
           res |-> CdNoRes]

\* The dates the picker hands over, after toIsoOrNull.
StartIsos == {{1}, {2}}

StartRow(i, s) == [id |-> i, event_start |-> s]

CountdownInit ==
  /\ eventStartIds \in {0, 1}
  /\ eventStart = {StartRow(i, {1}) : i \in 1..eventStartIds}
  /\ cdPage = [loading |-> TRUE, busy |-> FALSE, err |-> NoError, rowId |-> CdNull,
               startIso |-> CdNull]
  \* useEffect(() => { load() }, [])
  /\ cdLoad = [CdIdle EXCEPT !.pc = "sent"]
  /\ cdSave = CdIdle

\* The refresh button: disabled={loading || busy}; load up to its await
CdReload ==
  /\ ~cdPage.loading /\ ~cdPage.busy
  /\ cdPage' = [cdPage EXCEPT !.loading = TRUE, !.err = NoError]
  /\ cdLoad' = [CdIdle EXCEPT !.pc = "sent"]
  /\ UNCHANGED <<cdSave, eventStart, eventStartIds>>
  /\ UNCHANGED OutsideCountdown

\* .order('created_at', { ascending: true }).limit(1).maybeSingle()
FirstRow(table) ==
  {r \in table : \A q \in table : r.id <= q.id}

CdServerLoad ==
  /\ cdLoad.pc = "sent"
  /\ \E reply \in {[error |-> e, data |-> CdNull] : e \in CdErrors}
                    \cup {[error |-> NoError, data |-> FirstRow(eventStart)]} :
       cdLoad' = [cdLoad EXCEPT !.pc = "replied", !.res = reply]
  /\ UNCHANGED <<cdPage, cdSave, eventStart, eventStartIds>>
  /\ UNCHANGED OutsideCountdown

\* load resumes
CdLoadResponse ==
  LET res == cdLoad.res IN
  /\ cdLoad.pc = "replied"
  /\ cdLoad' = CdIdle
  /\ cdPage' =
       IF res.error # NoError
       THEN [cdPage EXCEPT !.err = res.error, !.loading = FALSE]
       ELSE IF res.data = CdNull
       THEN [cdPage EXCEPT !.rowId = CdNull, !.startIso = CdNull, !.loading = FALSE]
       ELSE LET r == CHOOSE r \in res.data : TRUE IN
            [cdPage EXCEPT !.rowId = {r.id}, !.startIso = r.event_start,
                           !.loading = FALSE]
  /\ UNCHANGED <<cdSave, eventStart, eventStartIds>>
  /\ UNCHANGED OutsideCountdown

\* The form is rendered when !loading:
\* onIonChange={(e) => setStartIso(toIsoOrNull(e.detail.value))}
setStartIso(v) ==
  /\ ~cdPage.loading
  /\ cdPage' = [cdPage EXCEPT !.startIso = v]
  /\ UNCHANGED <<cdLoad, cdSave, eventStart, eventStartIds>>
  /\ UNCHANGED OutsideCountdown

\* !!startIso && !busy && !loading
cdCanSave == cdPage.startIso # CdNull /\ ~cdPage.busy /\ ~cdPage.loading

\* rowId ? update(payload).eq('id', rowId) : insert([payload])
SaveOp(rowId) == IF rowId # CdNull THEN "update" ELSE "insert"

\* save up to its await; the button: disabled={!canSave}
CdSave ==
  /\ cdCanSave
  /\ cdPage' = [cdPage EXCEPT !.err = NoError, !.busy = TRUE]
  /\ cdSave' = [CdIdle EXCEPT !.pc = "sent", !.op = SaveOp(cdPage.rowId),
                              !.rowId = cdPage.rowId, !.startIso = cdPage.startIso]
  /\ UNCHANGED <<cdLoad, eventStart, eventStartIds>>
  /\ UNCHANGED OutsideCountdown

\* The platform executes the update or the insert, .select('id').maybeSingle()
CdServerSave ==
  /\ cdSave.pc = "sent"
  /\ \/ \E e \in CdErrors :
          /\ cdSave' = [cdSave EXCEPT !.pc = "replied",
                                      !.res = [error |-> e, data |-> CdNull]]
          /\ UNCHANGED <<eventStart, eventStartIds>>
     \/ /\ cdSave.op = "update"
        /\ eventStart' = {IF {r.id} = cdSave.rowId THEN StartRow(r.id, cdSave.startIso)
                          ELSE r : r \in eventStart}
        /\ cdSave' = [cdSave EXCEPT !.pc = "replied",
                        !.res = [error |-> NoError,
                                 data |-> cdSave.rowId \cap {r.id : r \in eventStart}]]
        /\ UNCHANGED eventStartIds
     \/ /\ cdSave.op = "insert"
        /\ eventStartIds < MaxStartRows
        /\ eventStartIds' = eventStartIds + 1
        /\ eventStart' = eventStart \cup {StartRow(eventStartIds + 1, cdSave.startIso)}
        /\ cdSave' = [cdSave EXCEPT !.pc = "replied",
                        !.res = [error |-> NoError, data |-> {eventStartIds + 1}]]
  /\ UNCHANGED <<cdPage, cdLoad>>
  /\ UNCHANGED OutsideCountdown

\* save resumes: setRowId(res.data?.id ?? rowId)
CdSaveResponse ==
  /\ cdSave.pc = "replied"
  /\ cdSave' = [cdSave EXCEPT !.pc = "done"]
  /\ cdPage' =
       IF cdSave.res.error # NoError
       THEN [cdPage EXCEPT !.err = cdSave.res.error, !.busy = FALSE]
       ELSE [cdPage EXCEPT !.busy = FALSE,
                           !.rowId = IF cdSave.res.data # CdNull THEN cdSave.res.data
                                     ELSE cdSave.rowId]
  /\ UNCHANGED <<cdLoad, eventStart, eventStartIds>>
  /\ UNCHANGED OutsideCountdown

CountdownNext ==
  \/ CdReload
  \/ CdServerLoad
  \/ CdLoadResponse
  \/ \E v \in StartIsos \cup {CdNull} : setStartIso(v)
  \/ CdSave
  \/ CdServerSave
  \/ CdSaveResponse

-----------------------------------------------------------------------------
(* Countdown: claims.                                                      *)

\* C12: whatever saves the Countdown page has made, event_start holds at
\* most one row.
C12_AtMostOneRow == Cardinality(eventStart) <= 1

-----------------------------------------------------------------------------
(* Editing the runs of the active event (GamesRuns.tsx: vmRuns, saveRun,   *)
(* quickStart, quickDone).                                                 *)

MaxEditRuns  == 1
MaxEditLoads == 2
MaxEditSaves == 2

\* Time in seconds, SecPerMin of them to the minute; null is {}.
SecPerMin == 2

\* new Date() when a quick button is pressed
NowIsos == {3}

RunStatuses == {"planned", "running", "done"}

\* isoToDatetimeLocal: "" for null, else the text of the minute
isoToDatetimeLocal(iso) == {t \div SecPerMin : t \in iso}

\* datetimeLocalToISO: null for "", else the instant of that minute
datetimeLocalToISO(value) == {m * SecPerMin : m \in value}

\* normalizeStatus
normalizeStatus(s) == IF s \in {"running", "done"} THEN s ELSE "planned"

\* What is picked in the started and finished inputs.
EditMinutes == {{0}}

\* What is typed into the sort_order input.
EditSortTexts == {<<"1">>, <<"a">>}

StoredRun(status, started, finished, sort) ==
  [status |-> status, started_at |-> started, finished_at |-> finished,
   sort_order |-> sort]

\* The rows of games_runs the page finds.
StoredRuns ==
  {StoredRun("planned", {}, {}, {1}), StoredRun("running", {1}, {}, {}),
   StoredRun("other", {}, {}, {1})}

\* loadRuns: r.map((x) => ({ ... saving: false }))
VmOfRun(x) ==
  [status |-> normalizeStatus(x.status),
   started_local |-> isoToDatetimeLocal(x.started_at),
   finished_local |-> isoToDatetimeLocal(x.finished_at),
   sort_order |-> IF x.sort_order = {} THEN <<>> ELSE <<"1">>,
   saving |-> FALSE]

ReIdleSave ==
  [n |-> 0, pc |-> "none", by |-> "-", payload |-> StoredRun("planned", {}, {}, {}),
   original |-> StoredRun("planned", {}, {}, {}), error |-> NoError]

RunEditInit ==
  /\ storedRuns \in [1..MaxEditRuns -> StoredRuns]
  /\ runs = <<>>
  /\ vmRuns = <<>>
  \* loadAll has called loadRuns(ev.id)
  /\ reLoads = <<[pc |-> "sent", data |-> <<>>, error |-> NoError]>>
  /\ reSave = [i \in 1..MaxEditRuns |-> ReIdleSave]
  /\ reToast = <<>>

\* games_runs .eq("event_id", eventId)
ReServerLoad(k) ==
  /\ k \in DOMAIN reLoads
  /\ reLoads[k].pc = "sent"
  /\ \/ reLoads' = [reLoads EXCEPT ![k] = [pc |-> "replied", data |-> storedRuns,
                                           error |-> NoError]]
     \/ reLoads' = [reLoads EXCEPT ![k] = [pc |-> "replied", data |-> <<>>,
                                           error |-> MsgTimeout]]
  /\ UNCHANGED <<storedRuns, runs, vmRuns, reSave, reToast>>
  /\ UNCHANGED OutsideRunEdit

\* loadRuns resumes: if (res.error) throw res.error; setRuns(r); setVmRuns(...)
ReLoadResponse(k) ==
  /\ k \in DOMAIN reLoads
  /\ reLoads[k].pc = "replied"
  /\ reLoads' = Without(reLoads, k)
  /\ IF reLoads[k].error # NoError
     THEN UNCHANGED <<runs, vmRuns>>
     ELSE /\ runs' = reLoads[k].data
          /\ vmRuns' = [i \in DOMAIN reLoads[k].data |-> VmOfRun(reLoads[k].data[i])]
  /\ UNCHANGED <<storedRuns, reSave, reToast>>
  /\ UNCHANGED OutsideRunEdit

\* The inputs and buttons of a row: disabled={isSaving}
RowEnabled(id) == id \in DOMAIN vmRuns /\ ~vmRuns[id].saving

\* updateVm(id, patch) from an input of the row
EditRow(id, field, v) ==
  /\ RowEnabled(id)
  /\ vmRuns' = [vmRuns EXCEPT ![id][field] = v]
  /\ UNCHANGED <<storedRuns, runs, reLoads, reSave, reToast>>
  /\ UNCHANGED OutsideRunEdit

\* saveRun(id) up to its await, called in a render whose vmRuns and runs are
\* vms and originals; shown is vmRuns with the updates queued before the
\* call.
SaveRunFrom(id, by, vms, originals, shown) ==
  LET vm == vms[id]
      parsedSort == IF trim(vm.sort_order) # <<>> THEN Number(vm.sort_order) ELSE NaN
  IN
  /\ id \in DOMAIN originals
  /\ Len(reLoads) < MaxEditLoads
  /\ reSave[id].n < MaxEditSaves
  /\ IF trim(vm.sort_order) # <<>> /\ ~parsedSort.finite
     THEN /\ reToast' = <<"sort_order", "muss", "eine", "Zahl", "sein.">>
          /\ vmRuns' = shown
          /\ reSave' = [reSave EXCEPT ![id] = [ReIdleSave EXCEPT !.n = reSave[id].n + 1, !.pc = "invalid", !.by = by]]
     ELSE /\ vmRuns' = [shown EXCEPT ![id].saving = TRUE]
          /\ reSave' = [reSave EXCEPT ![id] =
               [n |-> reSave[id].n + 1, pc |-> "sent", by |-> by,
                payload |-> StoredRun(vm.status, datetimeLocalToISO(vm.started_local),
                                      datetimeLocalToISO(vm.finished_local),
                                      IF trim(vm.sort_order) # <<>> THEN {1} ELSE {}),
                original |-> originals[id], error |-> NoError]]
          /\ UNCHANGED reToast
  /\ UNCHANGED <<storedRuns, runs, reLoads>>
  /\ UNCHANGED OutsideRunEdit

\* The save button of the row
saveRun(id) ==
  /\ RowEnabled(id)
  /\ SaveRunFrom(id, "saveRun", vmRuns, runs, vmRuns)

\* The vmRuns that saveRun reads when quickStart or quickDone calls it:
\* the const of the render the handlers were created in; the update that
\* updateVm has queued is in the next render's vmRuns.
VmRunsInClosure(rendered, queued) == rendered

\* quickStart: updateVm(id, { status: "running", started_local: ... });
\* await saveRun(id)
quickStart(id, nowIso) ==
  /\ RowEnabled(id)
  /\ LET vm == vmRuns[id]
         queued == [vmRuns EXCEPT ![id].status = "running",
                      ![id].started_local = IF vm.started_local # {} THEN vm.started_local
                                            ELSE isoToDatetimeLocal({nowIso})]
     IN SaveRunFrom(id, "quickStart", VmRunsInClosure(vmRuns, queued), runs, queued)

\* quickDone: status "done", finished_local and started_local filled in
quickDone(id, nowIso) ==
  /\ RowEnabled(id)
  /\ LET vm == vmRuns[id]
         queued == [vmRuns EXCEPT ![id].status = "done",
                      ![id].finished_local = IF vm.finished_local # {} THEN vm.finished_local
                                             ELSE isoToDatetimeLocal({nowIso}),
                      ![id].started_local = IF vm.started_local # {} THEN vm.started_local
                                            ELSE isoToDatetimeLocal({nowIso})]
     IN SaveRunFrom(id, "quickDone", VmRunsInClosure(vmRuns, queued), runs, queued)

\* games_runs .update(payload).eq("id", id).select(...).single()
ReServerUpdate(id) ==
  /\ reSave[id].pc = "sent"
  /\ \/ /\ storedRuns' = [storedRuns EXCEPT ![id] = reSave[id].payload]
        /\ reSave' = [reSave EXCEPT ![id].pc = "replied"]
     \/ /\ reSave' = [reSave EXCEPT ![id].pc = "replied", ![id].error = MsgTimeout]
        /\ UNCHANGED storedRuns
  /\ UNCHANGED <<runs, vmRuns, reLoads, reToast>>
  /\ UNCHANGED OutsideRunEdit

\* saveRun resumes: updateVm(id, { saving: false }); on an error the toast
\* and the row set back to original; else the toast and loadRuns
ReSaveResponse(id) ==
  LET call == reSave[id] IN
  /\ call.pc = "replied"
  /\ reSave' = [reSave EXCEPT ![id].pc = "done"]
  /\ IF call.error # NoError
     THEN /\ reToast' = <<"Update", "Fehler:">> \o call.error
          /\ vmRuns' = IF id \in DOMAIN vmRuns
                       THEN [vmRuns EXCEPT ![id] =
                               [VmOfRun(call.original) EXCEPT !.saving = FALSE]]
                       ELSE vmRuns
          /\ UNCHANGED reLoads
     ELSE /\ reToast' = <<"Gespeichert.">>
          /\ vmRuns' = IF id \in DOMAIN vmRuns
                       THEN [vmRuns EXCEPT ![id].saving = FALSE] ELSE vmRuns
          /\ reLoads' = Append(reLoads, [pc |-> "sent", data |-> <<>>, error |-> NoError])
  /\ UNCHANGED <<storedRuns, runs>>
  /\ UNCHANGED OutsideRunEdit

RunEditNext ==
  \/ \E k \in 1..MaxEditLoads : ReServerLoad(k)
  \/ \E k \in 1..MaxEditLoads : ReLoadResponse(k)
  \/ \E id \in 1..MaxEditRuns, s \in RunStatuses : EditRow(id, "status", s)
  \/ \E id \in 1..MaxEditRuns, m \in EditMinutes : EditRow(id, "started_local", m)
  \/ \E id \in 1..MaxEditRuns, m \in EditMinutes : EditRow(id, "finished_local", m)
  \/ \E id \in 1..MaxEditRuns, v \in EditSortTexts : EditRow(id, "sort_order", v)
  \/ \E id \in 1..MaxEditRuns : saveRun(id)
  \/ \E id \in 1..MaxEditRuns, nowIso \in NowIsos : quickStart(id, nowIso)
  \/ \E id \in 1..MaxEditRuns, nowIso \in NowIsos : quickDone(id, nowIso)
  \/ \E id \in 1..MaxEditRuns : ReServerUpdate(id)
  \/ \E id \in 1..MaxEditRuns : ReSaveResponse(id)

-----------------------------------------------------------------------------
(* Editing runs: claims.                                                   *)

\* The update of a call made by `by` for run id has been executed without a
\* database error.
CompletedOk(id, by) ==
  /\ reSave[id].pc \in {"replied", "done"}
  /\ reSave[id].by = by
  /\ reSave[id].error = NoError

\* C13: after quickStart(id) has completed without a database error the
\* stored run has status "running" and a started_at; after quickDone(id) it
\* has status "done", a started_at and a finished_at.
C13_QuickButtonsStoreStatus ==
  \A id \in 1..MaxEditRuns :
    /\ CompletedOk(id, "quickStart")
         => (storedRuns[id].status = "running" /\ storedRuns[id].started_at # {})
    /\ CompletedOk(id, "quickDone")
         => /\ storedRuns[id].status = "done"
            /\ storedRuns[id].started_at # {}
            /\ storedRuns[id].finished_at # {}

-----------------------------------------------------------------------------
(* Games home: the toggles and the stored row.                             *)

\* The switches show what the row of app_features holds: enabled, title, and
\* show_tab where the row's config has one.
DisplayedIsStored ==
  \E row \in appFeatures : feature = FeatureOfRow(row, feature.showTab)

NoHomeRequestFailed ==
  /\ \A k \in 1..MaxSaves : saves[k].res.error = NoError
  /\ \A l \in 0..MaxSaves : loads[l].res.error = NoError

-----------------------------------------------------------------------------
(* Two admin sessions on the Events page, each with its own page state,    *)
(* over the one table games_events (GamesEvents.tsx: load, setActive).     *)

MaxSessionCalls == 2

AdminSessions == {1, 2}
SessionEventIds == {1, 2}

SsIdleCall == [op |-> "load", arg |-> 0, pc |-> "load_sent", res |-> EvNoRes, n |-> 0]

SessionsInit ==
  \* the table as the sessions find it: at most one event is active
  /\ ssEvents \in {t \in EventTables : Ids(t) = SessionEventIds
                                        /\ Cardinality(ActiveIds(t)) <= 1}
  /\ ssPage = [s \in AdminSessions |->
                 [rows |-> {}, loading |-> TRUE, saving |-> FALSE,
                  toast |-> Toast("", NoError)]]
  \* useEffect(() => void load(), []) in either session
  /\ ssCall = [s \in AdminSessions |-> SsIdleCall]

\* setActive up to its first await, in session s; the button: disabled={saving},
\* in the list that is rendered when not loading.
SsSetActive(s, eventId) ==
  /\ ~ssPage[s].saving /\ ~ssPage[s].loading
  /\ ssCall[s].pc = "done"
  /\ ssCall[s].n < MaxSessionCalls
  /\ eventId \in Ids(ssPage[s].rows)
  /\ ssPage' = [ssPage EXCEPT ![s].saving = TRUE]
  /\ ssCall' = [ssCall EXCEPT ![s] = [op |-> "setActive", arg |-> eventId,
                                      pc |-> "off_sent", res |-> EvNoRes,
                                      n |-> ssCall[s].n + 1]]
  /\ UNCHANGED ssEvents
  /\ UNCHANGED OutsideSessions

\* The platform executes the request session s has in flight.
SsServer(s) ==
  LET c == ssCall[s] IN
  /\ c.pc \in {"off_sent", "on_sent", "load_sent"}
  /\ \/ \E e \in EvErrors :
          /\ ssCall' = [ssCall EXCEPT ![s].pc = "replied:" \o c.pc,
                                      ![s].res = [error |-> e, data |-> {}]]
          /\ UNCHANGED ssEvents
     \/ /\ c.pc = "off_sent"
        \* update({active: false}).eq("active", true)
        /\ ssEvents' = {EventRow(r.id, FALSE) : r \in ssEvents}
        /\ ssCall' = [ssCall EXCEPT ![s].pc = "replied:" \o c.pc]
     \/ /\ c.pc = "on_sent"
        \* update({active: true}).eq("id", eventId)
        /\ ssEvents' = {IF r.id = c.arg THEN EventRow(r.id, TRUE) ELSE r : r \in ssEvents}
        /\ ssCall' = [ssCall EXCEPT ![s].pc = "replied:" \o c.pc]
     \/ /\ c.pc = "load_sent"
        /\ ssCall' = [ssCall EXCEPT ![s].pc = "replied:" \o c.pc,
                                    ![s].res = [error |-> NoError, data |-> ssEvents]]
        /\ UNCHANGED ssEvents
  /\ UNCHANGED ssPage
  /\ UNCHANGED OutsideSessions

\* Session s resumes after one of its awaits.
SsResponse(s) ==
  LET c == ssCall[s]
      p == ssPage[s]
  IN
  /\ c.pc \in {"replied:off_sent", "replied:on_sent", "replied:load_sent"}
  /\ IF c.pc = "replied:load_sent" THEN
       \* load(): setLoading(false), the rows or the error; then, in
       \* setActive, finally { setSaving(false) }
       /\ ssPage' = [ssPage EXCEPT ![s] =
            [rows |-> IF c.res.error # NoError THEN {} ELSE c.res.data,
             loading |-> FALSE, saving |-> FALSE,
             toast |-> IF c.res.error # NoError
                       THEN Toast("Load Fehler: ", c.res.error) ELSE p.toast]]
       /\ ssCall' = [ssCall EXCEPT ![s].pc = "done"]
     ELSE IF c.res.error # NoError THEN
       \* catch (e) { toast(...) } finally { setSaving(false) }
       /\ ssPage' = [ssPage EXCEPT ![s].saving = FALSE,
                                   ![s].toast = SetActiveErrorToast(c.res.error)]
       /\ ssCall' = [ssCall EXCEPT ![s].pc = "done"]
     ELSE IF c.pc = "replied:off_sent" THEN
       /\ ssCall' = [ssCall EXCEPT ![s].pc = "on_sent", ![s].res = EvNoRes]
       /\ UNCHANGED ssPage
     ELSE
       \* toast("Event aktiv gesetzt."); await load()
       /\ ssPage' = [ssPage EXCEPT ![s].toast = Toast("Event aktiv gesetzt.", NoError),
                                   ![s].loading = TRUE]
       /\ ssCall' = [ssCall EXCEPT ![s].pc = "load_sent", ![s].res = EvNoRes]
  /\ UNCHANGED ssEvents
  /\ UNCHANGED OutsideSessions

SessionsNext ==
  \/ \E s \in AdminSessions, eventId \in SessionEventIds : SsSetActive(s, eventId)
  \/ \E s \in AdminSessions : SsServer(s)
  \/ \E s \in AdminSessions : SsResponse(s)

-----------------------------------------------------------------------------
(* Two sessions: claims.                                                   *)

\* Both sessions have called setActive, for different events, and both calls
\* have completed.
BothSetActiveCompleted ==
  /\ \A s \in AdminSessions : ssCall[s].op = "setActive" /\ ssCall[s].pc = "done"
  /\ ssCall[1].arg # ssCall[2].arg

-----------------------------------------------------------------------------
(* Events page: a failed setActive, and deleting.                          *)

\* A setActive call has ended in its catch block.
SetActiveFailed ==
  evCall.op = "setActive" /\ evCall.pc = "done" /\ evCall.outcome = "error"

\* C16: if setActive fails at either of its two update steps, the event
\* that was active before the call is still active afterwards.
C16_FailedSetActiveKeepsActive ==
  SetActiveFailed => evCall.before \subseteq ActiveIds(gamesEvents)

\* C17: an event that is active is never deleted through the Events page:
\* deleteEvent issues no delete request for an event whose active flag is
\* true.
C17_NoDeleteRequestForActive ==
  evCall.pc = "delete_sent" => evCall.arg \notin ActiveIds(gamesEvents)

-----------------------------------------------------------------------------
(* Results of one run (GamesResults.tsx).  The file holds the component    *)
(* twice: the one that ends at line 739 and the one that starts at line    *)
(* 947.  They differ in how a stored time is shown and parsed and in where  *)
(* the success toast is set.                                               *)

MaxTeams       == 2
MaxResultCalls == 2

ResultPages  == {"GamesResults", "GamesResults:947"}
ScoringModes == {"points_only", "time_best", "distance_best"}

\* scoringMode when the run's discipline is not in disciplineMap: null
NoMode == "null"
Teams        == 1..MaxTeams

\* formatMs: m:ss.SSS
formatMs(ms) ==
  IF ~ms.ok THEN <<>>
  ELSE ToChars(ms.ms \div 60000) \o <<":">>
         \o padStart(ToChars((ms.ms % 60000) \div 1000), 2, "0") \o <<".">>
         \o padStart(ToChars(ms.ms % 1000), 3, "0")

\* msToMSS: m:ss
msToMSS(ms) ==
  IF ~ms.ok THEN <<>>
  ELSE LET totalSeconds == ms.ms \div 1000 IN
       ToChars(totalSeconds \div 60) \o <<":">>
         \o padStart(ToChars(totalSeconds % 60), 2, "0")

\* String(n) of a number with at most one fraction digit
NumberText(n) ==
  IF n.scale = 0 \/ isInteger(n) THEN ToChars(MathTrunc(n))
  ELSE ToChars(MathTrunc(n)) \o <<".">> \o ToChars(n.mant % Pow10(n.scale))

\* parseFloatOrNull; null is NaN here
parseFloatOrNull(v) ==
  LET s == trim(v) IN
  IF s = <<>> THEN NaN ELSE Number(replace(s, ",", "."))

\* A row of games_run_results.
ResultRow(id, team, time, distance, note) ==
  [id |-> id, team_id |-> team, time_ms |-> time, distance |-> distance,
   note |-> note]

\* The rows the page finds for the run: a time with milliseconds, or a
\* distance.
FoundResults(mode) ==
  {{}} \cup (CASE mode = "time_best" -> {{ResultRow(1, 1, Ms(83456), NaN, <<>>)}}
              [] mode = "distance_best" -> {{ResultRow(1, 1, Null, Num(125, 1), <<>>)}}
              [] OTHER -> {})

\* What the admin types into a row.
TypedTimes     == {<<"1", ":", "2", "4">>, <<"x">>}
TypedDistances == {<<"7">>}
TypedNotes     == {<<"o", "k">>}

\* new Map(), []: no team has a result, no row is shown
EmptyMap == [t \in {} |-> 0]

\* The error a request may end with.
ResultErrors == {MsgTimeout}

RsNoRes == [error |-> NoError, data |-> <<>>]

\* untouched: the time field held, when saveRow was called, the text the
\* last load had put there (history, read by the claims only)
RsIdleRowCall ==
  [pc |-> "none", data |-> {}, existing |-> 0, untouched |-> FALSE, res |-> RsNoRes]

RsIdleAllCall ==
  [pc |-> "none", rows |-> <<>>, i |-> 0, data |-> {}, existing |-> EmptyMap,
   written |-> {}, said |-> FALSE, res |-> RsNoRes]

\* The page with the active event, its teams and runs loaded and a run
\* selected: the effect on selectedRunId has called loadResultsForRun.
ResultsInit ==
  /\ rsComponent \in ResultPages
  /\ scoringMode \in ScoringModes
  /\ runResults \in FoundResults(scoringMode)
  /\ runResultsIds = 1
  /\ resultsByTeam = EmptyMap
  /\ vmRows = EmptyMap
  /\ rsLoading = TRUE
  /\ globalSaving = FALSE
  /\ rsToast = Toast("", NoError)
  /\ rsLoad = [pc |-> "load_sent", res |-> RsNoRes]
  /\ rsRowCall = [t \in Teams |-> RsIdleRowCall]
  /\ rsAllCall = RsIdleAllCall
  /\ rsCalls = 0

\* The maps a select of the run's rows can be turned into:
\* forEach((r) => map.set(r.team_id, r)), the last row of a team wins.
ResultMaps(rows) ==
  LET withRows == {t \in Teams : \E r \in rows : r.team_id = t} IN
  {m \in [withRows -> rows] : \A t \in withRows : m[t].team_id = t}

\* How the stored time is shown, by component.
ShownTime(page, ms) == IF page = "GamesResults" THEN formatMs(ms) ELSE msToMSS(ms)

\* buildVmRows(map): a row per team from its result, dirty and saving false
buildVmRows(page, map) ==
  [t \in Teams |->
     IF t \in DOMAIN map
     THEN [timeStr |-> ShownTime(page, map[t].time_ms),
           distanceStr |-> IF map[t].distance.finite THEN NumberText(map[t].distance)
                           ELSE <<>>,
           noteStr |-> map[t].note, dirty |-> FALSE, saving |-> FALSE]
     ELSE [timeStr |-> <<>>, distanceStr |-> <<>>, noteStr |-> <<>>,
           dirty |-> FALSE, saving |-> FALSE]]

\* How a typed time is read, by component.
ParsedTime(page, text) ==
  IF page = "GamesResults" THEN parseTimeToMs(text) ELSE parseMsFromMSS(text)

\* buildPayload with the tests of scoringMode left out: a field that holds a
\* text is parsed and sent whatever the mode.
buildPayloadAnyMode(page, mode, team, row) ==
  LET timeMs == IF trim(row.timeStr) # <<>>
                THEN ParsedTime(page, row.timeStr) ELSE Null
      distance == IF trim(row.distanceStr) # <<>>
                  THEN parseFloatOrNull(row.distanceStr) ELSE NaN
  IN
  IF page = "GamesResults" /\ mode = NoMode
  THEN [ok |-> FALSE, error |-> "Disziplin/ScoringMode nicht gefunden.", data |-> {}]
  ELSE IF trim(row.timeStr) # <<>> /\ ~timeMs.ok
  THEN [ok |-> FALSE, error |-> "Zeit ungueltig.", data |-> {}]
  ELSE IF trim(row.distanceStr) # <<>> /\ ~distance.finite
  THEN [ok |-> FALSE, error |-> "Distanz ungueltig.", data |-> {}]
  ELSE [ok |-> TRUE, error |-> "",
        data |-> {[team_id |-> team, time_ms |-> timeMs, distance |-> distance,
                   note |-> trim(row.noteStr)]}]

\* buildPayload(row): the error text, or the data to write.  Only the first
\* component refuses a run whose scoring mode is not found.
buildPayload(page, mode, team, row) ==
  LET timeMs == IF mode = "time_best" /\ trim(row.timeStr) # <<>>
                THEN ParsedTime(page, row.timeStr) ELSE Null
      distance == IF mode = "distance_best" /\ trim(row.distanceStr) # <<>>
                  THEN parseFloatOrNull(row.distanceStr) ELSE NaN
  IN
  IF page = "GamesResults" /\ mode = NoMode
  THEN [ok |-> FALSE, error |-> "Disziplin/ScoringMode nicht gefunden.", data |-> {}]
  ELSE IF mode = "time_best" /\ trim(row.timeStr) # <<>> /\ ~timeMs.ok
  THEN [ok |-> FALSE, error |-> "Zeit ungueltig.", data |-> {}]
  ELSE IF mode = "distance_best" /\ trim(row.distanceStr) # <<>> /\ ~distance.finite
  THEN [ok |-> FALSE, error |-> "Distanz ungueltig.", data |-> {}]
  ELSE [ok |-> TRUE, error |-> "",
        data |-> {[team_id |-> team, time_ms |-> timeMs, distance |-> distance,
                   note |-> trim(row.noteStr)]}]

rsVarsButRows == <<rsComponent, scoringMode, runResults, runResultsIds, resultsByTeam>>

\* hasDirty
hasDirty == \E t \in DOMAIN vmRows : vmRows[t].dirty

\* The list of rows is rendered: {loading ? <IonSpinner/> : ... vmRows.map}
ListShown == ~rsLoading

\* updateVmField from an input of the row: disabled={globalSaving || r.saving}
updateVmField(teamId, field, value) ==
  /\ ListShown /\ teamId \in DOMAIN vmRows
  /\ ~globalSaving /\ ~vmRows[teamId].saving
  /\ vmRows' = [vmRows EXCEPT ![teamId][field] = value, ![teamId].dirty = TRUE]
  /\ UNCHANGED <<rsVarsButRows, rsLoading, globalSaving, rsToast, rsLoad, rsRowCall,
                 rsAllCall, rsCalls>>
  /\ UNCHANGED OutsideResults

\* existing?.id
ExistingId(map, teamId) == IF teamId \in DOMAIN map THEN map[teamId].id ELSE 0

\* setVmRows((prev) => prev.map((x) => x.team.id === teamId ? {...x, saving} : x))
SetSaving(rows, teamId, flag) ==
  IF teamId \in DOMAIN rows THEN [rows EXCEPT ![teamId].saving = flag] ELSE rows

TimeUntouched(teamId) ==
  /\ teamId \in DOMAIN resultsByTeam
  /\ vmRows[teamId].timeStr = ShownTime(rsComponent, resultsByTeam[teamId].time_ms)

\* saveRow(teamId) up to its await; the button:
\* disabled={globalSaving || r.saving || !r.dirty}
saveRow(teamId) ==
  /\ ListShown /\ teamId \in DOMAIN vmRows
  /\ ~globalSaving /\ ~vmRows[teamId].saving /\ vmRows[teamId].dirty
  /\ rsRowCall[teamId].pc \in {"none", "done"}
  /\ rsCalls < MaxResultCalls
  /\ rsCalls' = rsCalls + 1
  /\ \E built \in {buildPayload(rsComponent, scoringMode, teamId, vmRows[teamId])} :
     IF ~built.ok
     THEN /\ rsToast' = Toast(built.error, NoError)
          /\ rsRowCall' = [rsRowCall EXCEPT ![teamId] = [RsIdleRowCall EXCEPT !.pc = "done"]]
          /\ UNCHANGED vmRows
     ELSE /\ vmRows' = SetSaving(vmRows, teamId, TRUE)
          /\ rsRowCall' = [rsRowCall EXCEPT ![teamId] =
               [pc |-> "write_sent", data |-> built.data,
                existing |-> ExistingId(resultsByTeam, teamId),
                untouched |-> TimeUntouched(teamId), res |-> RsNoRes]]
          /\ UNCHANGED rsToast
  /\ UNCHANGED <<rsVarsButRows, rsLoading, globalSaving, rsLoad, rsAllCall>>
  /\ UNCHANGED OutsideResults

\* games_run_results after update(data).eq("id", existing) or insert(data)
Written(rows, ids, data, existing) ==
  LET d == CHOOSE x \in data : TRUE IN
  IF existing # 0
  THEN {IF r.id = existing
        THEN ResultRow(r.id, d.team_id, d.time_ms, d.distance, d.note) ELSE r : r \in rows}
  ELSE rows \cup {ResultRow(ids + 1, d.team_id, d.time_ms, d.distance, d.note)}

\* The errors a request may end with, and none.
ResultOutcomes == ResultErrors \cup {NoError}

\* The platform executes the write of a call and it ends with e: the call
\* record with the reply, and the table after it.
RsServerWrite(call, existing, e) ==
  IF e # NoError
  THEN [call |-> [call EXCEPT !.pc = "write_replied",
                              !.res = [error |-> e, data |-> <<>>]],
        rows |-> runResults, ids |-> runResultsIds]
  ELSE [call |-> [call EXCEPT !.pc = "write_replied"],
        rows |-> Written(runResults, runResultsIds, call.data, existing),
        ids |-> IF existing # 0 THEN runResultsIds ELSE runResultsIds + 1]

\* The platform executes the select of a loadResultsForRun and it ends with
\* e, or with the map of the rows: the call record with the reply.
RsServerSelect(call, e, map) ==
  IF e # NoError
  THEN [call EXCEPT !.pc = "load_replied", !.res = [error |-> e, data |-> <<>>]]
  ELSE [call EXCEPT !.pc = "load_replied", !.res = [error |-> NoError, data |-> map]]

\* The platform executes the request a call has in flight: the write, or
\* the select of the reload.
RsServe(call, existing, e, map) ==
  IF call.pc = "write_sent" THEN RsServerWrite(call, existing, e)
  ELSE [call |-> RsServerSelect(call, e, map), rows |-> runResults, ids |-> runResultsIds]

\* loadResultsForRun after its await: the map and the rows, or the toast and
\* no rows (finally { setLoading(false) } is with the caller).
ResultsLoaded(res) ==
  IF res.error # NoError
  THEN [map |-> EmptyMap, rows |-> EmptyMap,
        toast |-> Toast("Results Load Fehler: ", res.error)]
  ELSE [map |-> res.data, rows |-> buildVmRows(rsComponent, res.data), toast |-> rsToast]

\* The catch blocks of saveRow and saveAllDirty.
ResultsErrorToast(page, handler, msg) ==
  LET blocked == IF page = "GamesResults" THEN isRlsError(msg) ELSE EvIsPolicy(msg) IN
  IF blocked
  THEN Toast("Save geblockt: RLS/Policy verhindert Write auf games_run_results.", NoError)
  ELSE IF handler = "saveRow" THEN Toast("Save Fehler: ", msg)
  ELSE Toast("SaveAll Fehler: ", msg)

\* The effect's loadResultsForRun.
RsServerLoad ==
  /\ rsLoad.pc = "load_sent"
  /\ \E e \in ResultOutcomes, map \in ResultMaps(runResults) :
       rsLoad' = RsServerSelect(rsLoad, e, map)
  /\ UNCHANGED <<runResults, runResultsIds>>
  /\ UNCHANGED <<rsComponent, scoringMode, resultsByTeam, vmRows, rsLoading, globalSaving,
                 rsToast, rsRowCall, rsAllCall, rsCalls>>
  /\ UNCHANGED OutsideResults

RsLoadResponse ==
  /\ rsLoad.pc = "load_replied"
  /\ \E loaded \in {ResultsLoaded(rsLoad.res)} :
       /\ resultsByTeam' = loaded.map
       /\ vmRows' = loaded.rows
       /\ rsToast' = loaded.toast
  /\ rsLoading' = FALSE
  /\ rsLoad' = [rsLoad EXCEPT !.pc = "done"]
  /\ UNCHANGED <<rsComponent, scoringMode, runResults, runResultsIds, globalSaving,
                 rsRowCall, rsAllCall, rsCalls>>
  /\ UNCHANGED OutsideResults

\* The platform executes the request saveRow(teamId) has in flight.
RsServerRow(teamId) ==
  /\ rsRowCall[teamId].pc \in {"write_sent", "load_sent"}
  /\ \E e \in ResultOutcomes, map \in ResultMaps(runResults) :
     \E served \in {RsServe(rsRowCall[teamId], rsRowCall[teamId].existing, e, map)} :
       /\ rsRowCall' = [rsRowCall EXCEPT ![teamId] = served.call]
       /\ runResults' = served.rows
       /\ runResultsIds' = served.ids
  /\ UNCHANGED <<rsComponent, scoringMode, resultsByTeam, vmRows, rsLoading, globalSaving,
                 rsToast, rsLoad, rsAllCall, rsCalls>>
  /\ UNCHANGED OutsideResults

\* saveRow(teamId) resumes after its write, or after the reload.
RsRowResponse(teamId) ==
  LET c == rsRowCall[teamId]
      Unsaving(rows) == SetSaving(rows, teamId, FALSE)
  IN
  /\ c.pc \in {"write_replied", "load_replied"}
  /\ IF c.pc = "load_replied" THEN
       \* the reload is through; the toast (first component); finally
       /\ \E loaded \in {ResultsLoaded(c.res)} :
            /\ resultsByTeam' = loaded.map
            /\ vmRows' = Unsaving(loaded.rows)
            /\ rsToast' = IF rsComponent = "GamesResults"
                          THEN Toast("Gespeichert (Ranking aktualisiert).", NoError)
                          ELSE loaded.toast
       /\ rsLoading' = FALSE
       /\ rsRowCall' = [rsRowCall EXCEPT ![teamId].pc = "done"]
     ELSE IF c.res.error # NoError THEN
       \* catch: the toast; finally: saving false
       /\ rsToast' = ResultsErrorToast(rsComponent, "saveRow", c.res.error)
       /\ vmRows' = Unsaving(vmRows)
       /\ rsRowCall' = [rsRowCall EXCEPT ![teamId].pc = "done"]
       /\ UNCHANGED <<resultsByTeam, rsLoading>>
     ELSE
       \* the toast (second component); loadResultsForRun: setLoading(true)
       /\ rsToast' = IF rsComponent = "GamesResults" THEN rsToast
                     ELSE Toast("Gespeichert.", NoError)
       /\ rsLoading' = TRUE
       /\ rsRowCall' = [rsRowCall EXCEPT ![teamId].pc = "load_sent", ![teamId].res = RsNoRes]
       /\ UNCHANGED <<resultsByTeam, vmRows>>
  /\ UNCHANGED <<rsComponent, scoringMode, runResults, runResultsIds, globalSaving, rsLoad,
                 rsAllCall, rsCalls>>
  /\ UNCHANGED OutsideResults

\* vmRows.filter((x) => x.dirty), in the order of the teams
RECURSIVE DirtyFrom(_, _)
DirtyFrom(rows, t) ==
  IF t > MaxTeams THEN <<>>
  ELSE IF t \in DOMAIN rows /\ rows[t].dirty
       THEN <<[team |-> t, row |-> rows[t]]>> \o DirtyFrom(rows, t + 1)
       ELSE DirtyFrom(rows, t + 1)

Built(entry) == buildPayload(rsComponent, scoringMode, entry.team, entry.row)

\* The loop of saveAllDirty from entry i on: the rows that do not build are
\* passed over with a toast (continue); the first row that builds is written.
RECURSIVE NextToWrite(_, _)
NextToWrite(rows, i) ==
  IF i > Len(rows) \/ Built(rows[i]).ok THEN i ELSE NextToWrite(rows, i + 1)

\* toast(`Team "${r.team.name}": ${built.error}`) of the last row passed over
\* between i and j, or the toast there was
RECURSIVE SkipToast(_, _, _, _)
SkipToast(rows, i, j, shown) ==
  IF i >= j THEN shown
  ELSE SkipToast(rows, i + 1, j, Toast(Built(rows[i]).error, <<"Team">> \o ToChars(rows[i].team)))

AllSavedToast ==
  IF rsComponent = "GamesResults"
  THEN Toast("Alle Aenderungen gespeichert (Ranking aktualisiert).", NoError)
  ELSE Toast("Alle Aenderungen gespeichert.", NoError)

\* saveAllDirty runs its loop from entry i up to the next await: the write
\* of a row, or, after the last row, loadResultsForRun.  The second
\* component sets the success toast before the reload, the first after it.
AllContinue(c, i) ==
  \E j \in {NextToWrite(c.rows, i)} :
  \E skipped \in {SkipToast(c.rows, i, j, rsToast)} :
  IF j <= Len(c.rows)
  THEN /\ rsAllCall' = [c EXCEPT !.pc = "write_sent", !.i = j,
                                 !.data = Built(c.rows[j]).data, !.res = RsNoRes]
       /\ rsToast' = skipped
       /\ UNCHANGED rsLoading
  ELSE /\ rsAllCall' = [c EXCEPT !.pc = "load_sent", !.i = j, !.res = RsNoRes,
                                 !.said = (rsComponent # "GamesResults")]
       /\ rsToast' = IF rsComponent = "GamesResults" THEN skipped ELSE AllSavedToast
       /\ rsLoading' = TRUE

\* saveAllDirty up to its first await; the button:
\* disabled={!selectedRunId || !hasDirty || globalSaving}
saveAllDirty ==
  /\ ~globalSaving /\ hasDirty
  /\ rsAllCall.pc \in {"none", "done"}
  /\ rsCalls < MaxResultCalls
  /\ rsCalls' = rsCalls + 1
  /\ globalSaving' = TRUE
  /\ \E c \in {[RsIdleAllCall EXCEPT !.rows = DirtyFrom(vmRows, 1),
                                      !.existing = resultsByTeam]} :
       AllContinue(c, 1)
  /\ UNCHANGED <<rsVarsButRows, vmRows, rsLoad, rsRowCall>>
  /\ UNCHANGED OutsideResults

\* The platform executes the request saveAllDirty has in flight.
RsServerAll ==
  LET c == rsAllCall
      existing == IF c.pc = "write_sent"
                  THEN ExistingId(c.existing, c.rows[c.i].team) ELSE 0
  IN
  /\ c.pc \in {"write_sent", "load_sent"}
  /\ \E e \in ResultOutcomes, map \in ResultMaps(runResults) :
     \E served \in {RsServe(c, existing, e, map)} :
       /\ rsAllCall' = served.call
       /\ runResults' = served.rows
       /\ runResultsIds' = served.ids
  /\ UNCHANGED <<rsComponent, scoringMode, resultsByTeam, vmRows, rsLoading, globalSaving,
                 rsToast, rsLoad, rsRowCall, rsCalls>>
  /\ UNCHANGED OutsideResults

\* saveAllDirty resumes after a write, or after the reload.
RsAllResponse ==
  LET c == rsAllCall IN
  /\ c.pc \in {"write_replied", "load_replied"}
  /\ IF c.pc = "load_replied" THEN
       \* the reload is through; the toast (first component); finally
       /\ \E loaded \in {ResultsLoaded(c.res)} :
            /\ resultsByTeam' = loaded.map
            /\ vmRows' = loaded.rows
            /\ rsToast' = IF rsComponent = "GamesResults" THEN AllSavedToast
                          ELSE loaded.toast
       /\ rsLoading' = FALSE
       /\ rsAllCall' = [c EXCEPT !.pc = "done", !.said = TRUE]
       /\ globalSaving' = FALSE
     ELSE IF c.res.error # NoError THEN
       \* throw: the catch block's toast; finally
       /\ rsToast' = ResultsErrorToast(rsComponent, "saveAllDirty", c.res.error)
       /\ rsAllCall' = [c EXCEPT !.pc = "done"]
       /\ globalSaving' = FALSE
       /\ UNCHANGED <<resultsByTeam, vmRows, rsLoading>>
     ELSE
       /\ \E next \in {[c EXCEPT !.written = @ \cup {c.rows[c.i].team}]} :
            AllContinue(next, c.i + 1)
       /\ UNCHANGED <<resultsByTeam, vmRows, globalSaving>>
  /\ UNCHANGED <<rsComponent, scoringMode, runResults, runResultsIds, rsLoad, rsRowCall,
                 rsCalls>>
  /\ UNCHANGED OutsideResults

\* The time input is rendered for time_best, the distance input for
\* distance_best.
showTime == scoringMode = "time_best"

showDist == scoringMode = "distance_best"

ResultsNext ==
  \/ \E t \in Teams, v \in TypedTimes : showTime /\ updateVmField(t, "timeStr", v)
  \/ \E t \in Teams, v \in TypedDistances : showDist /\ updateVmField(t, "distanceStr", v)
  \/ \E t \in Teams, v \in TypedNotes : updateVmField(t, "noteStr", v)
  \/ \E t \in Teams : saveRow(t)
  \/ saveAllDirty
  \/ RsServerLoad
  \/ RsLoadResponse
  \/ \E t \in Teams : RsServerRow(t)
  \/ \E t \in Teams : RsRowResponse(t)
  \/ RsServerAll
  \/ RsAllResponse

-----------------------------------------------------------------------------
(* Results: claims.                                                        *)

\* A step of saveRow(t): the handler itself or one of its requests.
SaveRowStep(t) == rsRowCall'[t] # rsRowCall[t]

\* C18: saving one team's result row with saveRow leaves the unsaved edits
\* in every other team's row unchanged.
C18_OtherRowsKeepEdits ==
  [][\A t \in Teams : SaveRowStep(t) =>
       \A u \in Teams \ {t} :
         (u \in DOMAIN vmRows /\ vmRows[u].dirty)
           => (u \in DOMAIN vmRows' /\ vmRows'[u] = vmRows[u])]_vars

\* The write of saveRow(t) is executed and succeeds.
RowWritten(t) ==
  /\ rsRowCall[t].pc = "write_sent" /\ rsRowCall'[t].pc = "write_replied"
  /\ rsRowCall'[t].res.error = NoError

\* C19: saving a result row whose time field was not edited leaves the
\* stored time_ms unchanged.  Stated for the runs scored by time, where the
\* field is shown.
C19_UneditedTimeKept ==
  [][\A t \in Teams :
       (RowWritten(t) /\ rsRowCall[t].untouched /\ scoringMode = "time_best")
         => \A r \in runResults :
              r.id = rsRowCall[t].existing
                => \E q \in runResults' : q.id = r.id /\ q.time_ms = r.time_ms]_vars

\* C20: saveAllDirty shows the success toast "Alle Aenderungen gespeichert"
\* only if every row that was dirty when it started has been written.
C20_AllSavedToastMeansAllWritten ==
  rsAllCall.said => \A i \in 1..Len(rsAllCall.rows) :
                      rsAllCall.rows[i].team \in rsAllCall.written

-----------------------------------------------------------------------------
(* Auth context: the getSession result and the auth events.                *)

\* The async function of the effect resumes after its await and is alive.
GetSessionArrives ==
  getSession.pc = "read" /\ getSession'.pc = "done" /\ authAlive

\* An onAuthStateChange event has been handled: only its callback sets
\* loading to false before getSession has resolved.
AuthEventHandled == ~authLoading

\* C21: the session held by AuthProvider reflects the most recent auth
\* event: a getSession result that arrives after an onAuthStateChange event
\* does not replace the session value the event has set.
C21_GetSessionKeepsNewerSession ==
  [][(GetSessionArrives /\ AuthEventHandled) => authSession' = authSession]_vars

-----------------------------------------------------------------------------
(* List pages: the list shown once the loads are through.                  *)

\* Every change notification has arrived and every load has completed; no
\* load has ended with an error, and no change of the table went without a
\* notification to the page.
ListSettled ==
  /\ lsMounted /\ lsChannel = "joined"
  /\ lsNotes = <<>> /\ lsLoads = <<>>
  /\ ~lsPage.loading /\ lsPage.err = NoError
  /\ ~lsSeen.missed

\* C22: after the last change notification, once all list loads have
\* completed, the displayed list equals the table contents at that time,
\* whatever the order in which the responses of overlapping loads arrive.
C22_SettledListShowsTable == ListSettled => lsPage.items = lsRows

-----------------------------------------------------------------------------
(* The Runs page that shows the errors of its two lists apart: the second  *)
(* component of FoodCreate.tsx (lines 300 to 767).                          *)

MaxRefresh == 3

\* The event games_active_event holds, if any.
SplitEvents == {{}, {1}}

\* What the list requests of the page fail with; the first has the query
\* of loadDisciplines repeated without sort_order.
MsgNoSortOrder == <<"column", "sort_order", "does", "not", "exist">>

SplitErrors == {MsgNoSortOrder, MsgRls, MsgTimeout}

SpNoRes == [error |-> NoError, data |-> {}]

\* A call of refreshAll.  closure: activeEvent as the render that made the
\* function saw it, which is what its loadLists reads.
SpCall(closure) == [pc |-> "event_sent", closure |-> closure, res |-> SpNoRes]

\* useState(true), useState(false), useState(null), useState([]), ...;
\* a list is shown as the event whose rows it holds
SplitFresh ==
  [loadingEvent |-> TRUE, loadingLists |-> FALSE, activeEvent |-> {},
   disciplines |-> {}, runs |-> {}, discError |-> NoError, runsError |-> NoError,
   toast |-> Toast("", NoError)]

\* useEffect(() => { void refreshAll() }, []): refreshAll of the first
\* render is at the await of loadActiveEvent.
SplitInit ==
  /\ spEvent \in SplitEvents
  /\ spPage = SplitFresh
  /\ spCalls = <<SpCall({})>>

\* The button: disabled={loadingEvent || loadingLists || saving}.
\* loadActiveEvent: setLoadingEvent(true), the select is sent.
refreshAll ==
  /\ ~spPage.loadingEvent /\ ~spPage.loadingLists
  /\ Len(spCalls) < MaxRefresh
  /\ spCalls' = Append(spCalls, SpCall(spPage.activeEvent))
  /\ spPage' = [spPage EXCEPT !.loadingEvent = TRUE]
  /\ UNCHANGED spEvent
  /\ UNCHANGED OutsideSplit

\* The platform executes the select a call has in flight: games_active_event,
\* or the rows of a list with .eq("event_id", eventId).
SpServer(k) ==
  /\ k \in DOMAIN spCalls
  /\ spCalls[k].pc \in {"event_sent", "disc_sent", "fallback_sent", "runs_sent"}
  /\ \E e \in SplitErrors \cup {NoError} :
       spCalls' = [spCalls EXCEPT ![k] =
         [@ EXCEPT !.pc = CASE @ = "event_sent" -> "event_replied"
                           [] @ = "disc_sent" -> "disc_replied"
                           [] @ = "fallback_sent" -> "fallback_replied"
                           [] OTHER -> "runs_replied",
                   !.res = IF e # NoError THEN [error |-> e, data |-> {}]
                           ELSE IF spCalls[k].pc = "event_sent"
                           THEN [error |-> NoError, data |-> spEvent]
                           ELSE [error |-> NoError, data |-> spCalls[k].closure]]]
  /\ UNCHANGED <<spEvent, spPage>>
  /\ UNCHANGED OutsideSplit

\* loadActiveEvent resumes: the event or the toast; finally.  refreshAll
\* then sets its timer: setTimeout(() => void loadLists(), 0).
SpEventResponse(k) ==
  /\ k \in DOMAIN spCalls
  /\ spCalls[k].pc = "event_replied"
  /\ spPage' = IF spCalls[k].res.error # NoError
               THEN [spPage EXCEPT !.toast = Toast("ActiveEvent Load Fehler: ",
                                                    spCalls[k].res.error),
                                   !.activeEvent = {}, !.loadingEvent = FALSE]
               ELSE [spPage EXCEPT !.activeEvent = spCalls[k].res.data,
                                   !.loadingEvent = FALSE]
  /\ spCalls' = [spCalls EXCEPT ![k].pc = "timer", ![k].res = SpNoRes]
  /\ UNCHANGED spEvent
  /\ UNCHANGED OutsideSplit

\* The timer fires: loadLists of the render that made refreshAll, up to its
\* await in loadDisciplines.
loadLists(k) ==
  /\ k \in DOMAIN spCalls
  /\ spCalls[k].pc = "timer"
  /\ IF spCalls[k].closure = {}
     THEN /\ spPage' = [spPage EXCEPT !.disciplines = {}, !.runs = {}]
          /\ spCalls' = [spCalls EXCEPT ![k].pc = "done"]
     ELSE /\ spPage' = [spPage EXCEPT !.loadingLists = TRUE, !.discError = NoError]
          /\ spCalls' = [spCalls EXCEPT ![k].pc = "disc_sent"]
  /\ UNCHANGED spEvent
  /\ UNCHANGED OutsideSplit

\* msg.includes("sort_order") || msg.includes("does not exist")
SortOrderMissing(msg) ==
  LET m == toLowerCase(msg) IN
  includes(m, <<"sort_order">>) \/ includes(m, <<"does", "not", "exist">>)

\* The catch blocks of loadLists.
ListErrorText(table, msg) ==
  IF isRls(msg) THEN <<"RLS", "blockt", table>> \o msg ELSE msg

\* loadDisciplines resumes after one of its selects; loadLists goes on to
\* loadRuns up to its await.
SpDiscResponse(k) ==
  /\ k \in DOMAIN spCalls
  /\ spCalls[k].pc \in {"disc_replied", "fallback_replied"}
  /\ LET c == spCalls[k] IN
     IF c.res.error = NoError THEN
       /\ spPage' = [spPage EXCEPT !.disciplines = c.res.data, !.runsError = NoError]
       /\ spCalls' = [spCalls EXCEPT ![k].pc = "runs_sent", ![k].res = SpNoRes]
     ELSE IF c.pc = "disc_replied" /\ SortOrderMissing(c.res.error) THEN
       /\ spCalls' = [spCalls EXCEPT ![k].pc = "fallback_sent", ![k].res = SpNoRes]
       /\ UNCHANGED spPage
     ELSE
       /\ spPage' = [spPage EXCEPT
                       !.discError = ListErrorText("games_disciplines:", c.res.error),
                       !.disciplines = {}, !.runsError = NoError]
       /\ spCalls' = [spCalls EXCEPT ![k].pc = "runs_sent", ![k].res = SpNoRes]
  /\ UNCHANGED spEvent
  /\ UNCHANGED OutsideSplit

\* loadRuns resumes: the runs, or the catch block; finally.
SpRunsResponse(k) ==
  /\ k \in DOMAIN spCalls
  /\ spCalls[k].pc = "runs_replied"
  /\ LET c == spCalls[k] IN
     spPage' = IF c.res.error = NoError
               THEN [spPage EXCEPT !.runs = c.res.data, !.loadingLists = FALSE]
               ELSE [spPage EXCEPT
                       !.runsError = ListErrorText("games_runs:", c.res.error),
                       !.runs = {}, !.loadingLists = FALSE]
  /\ spCalls' = [spCalls EXCEPT ![k].pc = "done", ![k].res = SpNoRes]
  /\ UNCHANGED spEvent
  /\ UNCHANGED OutsideSplit

\* What the page does of itself: the platform answers, the awaits resume,
\* the timers fire.
SplitRuns ==
  \E k \in 1..MaxRefresh :
    SpServer(k) \/ SpEventResponse(k) \/ loadLists(k) \/ SpDiscResponse(k)
      \/ SpRunsResponse(k)

SplitNext ==
  \/ refreshAll
  \/ \E k \in 1..MaxRefresh : SpServer(k)
  \/ \E k \in 1..MaxRefresh : SpEventResponse(k)
  \/ \E k \in 1..MaxRefresh : loadLists(k)
  \/ \E k \in 1..MaxRefresh : SpDiscResponse(k)
  \/ \E k \in 1..MaxRefresh : SpRunsResponse(k)

-----------------------------------------------------------------------------
(* Runs page with split errors: claims.                                    *)

\* refreshAll(k) has completed: loadActiveEvent is through and the timer
\* for loadLists is set; the page holds the event that is active.
RefreshCompleted(k) ==
  /\ k \in DOMAIN spCalls
  /\ spCalls[k].pc = "timer"
  /\ spEvent # {}
  /\ spPage.activeEvent = spEvent

\* The disciplines and the runs of the active event are on the page.
ListsDisplayed == spPage.disciplines = spEvent /\ spPage.runs = spEvent

\* A request for one of the lists has failed and the page says so.
ListErrorShown == spPage.discError # NoError \/ spPage.runsError # NoError

\* C23: after refreshAll completes while an active event exists, the
\* disciplines and runs of that event are eventually loaded and displayed
\* (or the error of a list request that failed is).
C23_ListsEventuallyDisplayed ==
  \A k \in 1..MaxRefresh : RefreshCompleted(k) ~> (ListsDisplayed \/ ListErrorShown)

-----------------------------------------------------------------------------
(* Editing runs: the row after a failed update.                            *)

\* saveRun(id) resumes after an update that has failed.
FailedUpdateResumes(id) ==
  /\ reSave[id].pc = "replied" /\ reSave'[id].pc = "done"
  /\ reSave[id].error # NoError
  /\ id \in DOMAIN runs /\ id \in DOMAIN vmRuns

\* C24: after a failed run update the edited row no longer shows the
\* rejected edits: it shows the values last loaded from the database (runs,
\* which only loadRuns sets), and its saving flag is false.
C24_FailedUpdateShowsLoaded ==
  [][\A id \in 1..MaxEditRuns :
       FailedUpdateResumes(id) => vmRuns'[id] = VmOfRun(runs'[id])]_vars

-----------------------------------------------------------------------------
(* GamesResults.tsx, buildPayload on its own: the page, the scoring mode   *)
(* of the selected run's discipline and the fields of the row are the      *)
(* inputs of the function.                                                 *)

\* What a time field may hold: nothing, blanks, a time, a text that is none;
\* what buildVmRows puts there from a stored time_ms is among them.
PayloadTimes == {<<>>, <<" ">>, <<"1", ":", "2", "4">>, <<"x">>}

PayloadDistances == {<<>>, <<"7">>, <<"1", ",", "5">>, <<"x">>}

PayloadNotes == {<<>>, <<"o", "k">>}

PayloadRows ==
  [timeStr : PayloadTimes, distanceStr : PayloadDistances, noteStr : PayloadNotes]

\* A row of a team on either page, for a run whose discipline has any of the
\* scoring modes or is not found; nothing built yet.
PayloadInit ==
  /\ pyPage \in ResultPages
  /\ pyMode \in ScoringModes \cup {NoMode}
  /\ pyRow \in PayloadRows
  /\ pyBuilt = {}

\* const built = buildPayload(row), as saveRow and saveAllDirty call it
PayloadBuild ==
  /\ pyBuilt = {}
  /\ pyBuilt' = {buildPayload(pyPage, pyMode, 1, pyRow)}
  /\ UNCHANGED <<pyPage, pyMode, pyRow>>
  /\ UNCHANGED OutsidePayload

PayloadNext == PayloadBuild

-----------------------------------------------------------------------------
(* buildPayload: claims.                                                   *)

\* C25: the payload built for a result row has a non-null time_ms only when
\* the run's discipline has scoring mode time_best, and a non-null distance
\* only when it has scoring mode distance_best.
C25_PayloadFieldsFollowMode ==
  \A built \in pyBuilt : \A data \in built.data :
    /\ data.time_ms.ok => pyMode = "time_best"
    /\ data.distance.finite => pyMode = "distance_best"

\* A payload with a time was built from a row whose distance field holds a
\* number as well.
C25_TimeSentDistanceDropped ==
  \E built \in pyBuilt : \E data \in built.data :
    /\ data.time_ms.ok
    /\ parseFloatOrNull(pyRow.distanceStr).finite
    /\ ~data.distance.finite

-----------------------------------------------------------------------------
(* The specifications: one page each; the other pages stay as they are.    *)

HomeParked == HomeInit /\ appFeatures = {}

EventsParked == EventsInit /\ gamesEventsIds = 0

TimeParked == TimeInit /\ timeStr = <<>>

RunsParked == RunsInit /\ gamesDisciplines = {}

WritesParked == WritesInit /\ wrSite = Site("GamesHome", "save") /\ wrMsg = MsgTimeout

AuthParked == AuthInit /\ supabaseSession = "none" /\ requested = "/login"

ListParked == ListInit /\ lsTable = "news_posts" /\ lsRows = {}

FormParked == FormInit /\ fmKind = "NewsCreate"

CountdownParked == CountdownInit /\ eventStartIds = 0

RunEditParked == RunEditInit /\ storedRuns = [i \in 1..MaxEditRuns |-> StoredRun("planned", {}, {}, {1})]

SessionsParked == SessionsInit /\ ssEvents = {EventRow(i, FALSE) : i \in SessionEventIds}

ResultsParked == ResultsInit /\ rsComponent = "GamesResults" /\ scoringMode = "time_best" /\ runResults = {}

SplitParked == SplitInit /\ spEvent = {}

PayloadParked == PayloadInit /\ pyPage = "GamesResults" /\ pyMode = "time_best" /\ pyRow = [timeStr |-> <<>>, distanceStr |-> <<>>, noteStr |-> <<>>]

InitOnHome == HomeInit /\ EventsParked /\ TimeParked /\ RunsParked /\ WritesParked /\ AuthParked /\ ListParked /\ FormParked /\ CountdownParked /\ RunEditParked /\ SessionsParked /\ ResultsParked /\ SplitParked /\ PayloadParked

SpecHome == InitOnHome /\ [][HomeNext]_vars

InitOnEvents == EventsInit /\ HomeParked /\ TimeParked /\ RunsParked /\ WritesParked /\ AuthParked /\ ListParked /\ FormParked /\ CountdownParked /\ RunEditParked /\ SessionsParked /\ ResultsParked /\ SplitParked /\ PayloadParked

SpecEvents == InitOnEvents /\ [][EventsNext]_vars

InitOnTime == TimeInit /\ HomeParked /\ EventsParked /\ RunsParked /\ WritesParked /\ AuthParked /\ ListParked /\ FormParked /\ CountdownParked /\ RunEditParked /\ SessionsParked /\ ResultsParked /\ SplitParked /\ PayloadParked

SpecTime == InitOnTime /\ [][TimeNext]_vars

\* The Runs page reads games_events, which it finds as the Events page does.
InitOnRuns == RunsInit /\ EventsInit /\ HomeParked /\ TimeParked /\ WritesParked /\ AuthParked /\ ListParked /\ FormParked /\ CountdownParked /\ RunEditParked /\ SessionsParked /\ ResultsParked /\ SplitParked /\ PayloadParked

SpecRuns == InitOnRuns /\ [][RunsNext]_vars

InitOnWrites == WritesInit /\ HomeParked /\ EventsParked /\ TimeParked /\ RunsParked /\ AuthParked /\ ListParked /\ FormParked /\ CountdownParked /\ RunEditParked /\ SessionsParked /\ ResultsParked /\ SplitParked /\ PayloadParked

SpecWrites == InitOnWrites /\ [][WritesNext]_vars

InitOnAuth ==
  AuthInit /\ HomeParked /\ EventsParked /\ TimeParked /\ RunsParked /\ WritesParked /\ ListParked /\ FormParked /\ CountdownParked /\ RunEditParked /\ SessionsParked /\ ResultsParked /\ SplitParked /\ PayloadParked

SpecAuth == InitOnAuth /\ [][AuthNext]_vars

InitOnList ==
  ListInit /\ HomeParked /\ EventsParked /\ TimeParked /\ RunsParked /\ WritesParked /\ AuthParked /\ FormParked /\ CountdownParked /\ RunEditParked /\ SessionsParked /\ ResultsParked /\ SplitParked /\ PayloadParked

SpecList == InitOnList /\ [][ListNext]_vars

\* A signed-in admin has opened /games or /games/runs; the page on the screen
\* is the one whose handlers run.
PagesInit ==
  \E url \in {"/games", "/games/runs"} :
    /\ AuthSignedInAt(url)
    /\ IF url = "/games" THEN HomeInit /\ EventsParked /\ RunsParked
       ELSE RunsInit /\ EventsInit /\ HomeParked

PagesNext ==
  \/ screen = "GamesHome" /\ HomeNext
  \/ screen = "GamesRuns" /\ RunsNext

InitOnPages ==
  PagesInit /\ TimeParked /\ WritesParked /\ ListParked /\ FormParked /\ CountdownParked /\ RunEditParked /\ SessionsParked /\ ResultsParked /\ SplitParked /\ PayloadParked

SpecPages == InitOnPages /\ [][PagesNext]_vars

InitOnForm ==
  FormInit /\ HomeParked /\ EventsParked /\ TimeParked /\ RunsParked /\ WritesParked /\ AuthParked /\ ListParked /\ CountdownParked /\ RunEditParked /\ SessionsParked /\ ResultsParked /\ SplitParked /\ PayloadParked

SpecForm == InitOnForm /\ [][FormNext]_vars

InitOnCountdown ==
  CountdownInit /\ HomeParked /\ EventsParked /\ TimeParked /\ RunsParked /\ WritesParked /\ AuthParked /\ ListParked /\ FormParked /\ RunEditParked /\ SessionsParked /\ ResultsParked /\ SplitParked /\ PayloadParked

SpecCountdown == InitOnCountdown /\ [][CountdownNext]_vars

InitOnRunEdit ==
  RunEditInit /\ HomeParked /\ EventsParked /\ TimeParked /\ RunsParked /\ WritesParked /\ AuthParked /\ ListParked /\ FormParked /\ CountdownParked /\ SessionsParked /\ ResultsParked /\ SplitParked /\ PayloadParked

SpecRunEdit == InitOnRunEdit /\ [][RunEditNext]_vars

InitOnSessions ==
  SessionsInit /\ HomeParked /\ EventsParked /\ TimeParked /\ RunsParked /\ WritesParked /\ AuthParked /\ ListParked /\ FormParked /\ CountdownParked /\ RunEditParked /\ ResultsParked /\ SplitParked /\ PayloadParked

SpecSessions == InitOnSessions /\ [][SessionsNext]_vars

InitOnResults ==
  ResultsInit /\ HomeParked /\ EventsParked /\ TimeParked /\ RunsParked /\ WritesParked /\ AuthParked /\ ListParked /\ FormParked /\ CountdownParked /\ RunEditParked /\ SessionsParked /\ SplitParked /\ PayloadParked

SpecResults == InitOnResults /\ [][ResultsNext]_vars

InitOnSplit ==
  SplitInit /\ HomeParked /\ EventsParked /\ TimeParked /\ RunsParked /\ WritesParked /\ AuthParked /\ ListParked /\ FormParked /\ CountdownParked /\ RunEditParked /\ SessionsParked /\ ResultsParked /\ PayloadParked

SpecSplit == InitOnSplit /\ [][SplitNext]_vars

\* The platform answers every request, every await resumes and every timer
\* fires; the admin need not press anything.
SpecSplitFair == SpecSplit /\ WF_vars(SplitRuns)

InitOnPayload ==
  PayloadInit /\ HomeParked /\ EventsParked /\ TimeParked /\ RunsParked /\ WritesParked /\ AuthParked /\ ListParked /\ FormParked /\ CountdownParked /\ RunEditParked /\ SessionsParked /\ ResultsParked /\ SplitParked

SpecPayload == InitOnPayload /\ [][PayloadNext]_vars

====
